---- MODULE Spec2Model ----
(***************************************************************************)
(* Battle Sheep solver: the board (src/src/board.rs), its move generator   *)
(* and evaluator, and the negamax searcher (src/src/lib.rs).               *)
(* Coordinates are (r, q) pairs, 0-based as in the source; the tile vector *)
(* is a TLA+ sequence, so tiles[i + 1] is the source's tiles[i].           *)
(***************************************************************************)
EXTENDS Integers, Sequences, FiniteSets, TLC

VARIABLES
    board,            \* the position (main.rs 35; choose_move's board)
    player,           \* the player to move (main.rs 39; choose_move's player)
    turns,            \* turns played by the game loop (main.rs 41)
    pc,               \* where the call of choose_move stands
    heuristic_depth,  \* choose_move's heuristic_depth
    window,           \* choose_move's arguments <<alpha, beta>>
    moves,            \* the sorted successors (lib.rs 40-42)
    result,           \* the mutex-guarded result (lib.rs 45)
    alpha,            \* the shared atomic alpha (lib.rs 48)
    mutex,            \* 0, or the task that holds the lock of result
    tasks,            \* the evaluate_in_thread job of every successor
    returned,         \* what choose_move returned
    input,            \* the rows of the text read from stdin (main.rs 111-118)
    parsed,           \* the result of Board::parse on input
    output,           \* the rows written from the parsed board
    evaluation,       \* what a call of evaluate returned: <<value, visited>>
    written,          \* the last write through board[coords] = tile
    announced         \* what the game loop printed when it ended

search_vars ==
    <<pc, heuristic_depth, window, moves, result, alpha, mutex, tasks, returned>>

text_vars == <<input, parsed, output>>

vars == <<board, player, turns, search_vars, text_vars, evaluation, written,
          announced>>

(***************************************************************************)
(* Bounds of the model.                                                    *)
(***************************************************************************)
\* Row length of the boards the model starts from.
MaxCols == 3
\* Largest stack size on a board the model starts from.
MaxStackSize == 2
\* Largest number of stacks on a board the model starts from.
MaxStacks == 2
\* Number of turns of the game loop the model follows.
MaxTurns == 1
\* Largest heuristic_depth of a call of choose_move.
MaxDepth == 2
\* Largest number of successors of a position choose_move is called on.
MaxMoves == 4
\* Coordinates are probed from -MaxProbe to MaxProbe on both axes.
MaxProbe == 5
\* Largest number of rows and of columns of a board grown by clicks.
MaxGrid == 3
\* Number of rows of a board the model starts from.
MaxRows == 2
\* Largest number of board tiles of a board a whole game starts from.
MaxGameCells == 4
\* Number of turns of a whole game the model follows: one more than the
\* board tiles of a board.
MaxGameTurns == 5
\* Largest number of spaces before the first piece of a row of a text.
MaxIndent == 3
\* Largest number of pieces of a row of a text.
MaxCells == 2
\* Largest number of rows of a text.
MaxTextRows == 2

(***************************************************************************)
(* Player (board.rs 9-29).                                                 *)
(***************************************************************************)
Min == "Min"
Max == "Max"
Players == {Min, Max}

\* Mutant: both players count the value upwards.
sign_always_positive(p) == 1

sign(p) == IF p = Min THEN -1 ELSE 1

opposite(p) == IF p = Min THEN Max ELSE Min

(***************************************************************************)
(* Tile: the one-byte bitfield (board.rs 38-104).                          *)
(***************************************************************************)
MAX_STACK_SIZE == 32

NoTile == "NoTile"
Empty == "Empty"
Stack == "Stack"

Tile_new(tt, p, stack_size) ==
    stack_size - 1
    + (IF p = Min THEN 0 ELSE 32)
    + (CASE tt = Stack -> 0 [] tt = NoTile -> 64 [] tt = Empty -> 128)

NO_TILE == Tile_new(NoTile, Min, 1)
EMPTY == Tile_new(Empty, Min, 1)

tile_type(t) == IF t < 64 THEN Stack ELSE IF t < 128 THEN NoTile ELSE Empty

tile_player(t) == IF t < 32 THEN Min ELSE Max

stack_size(t) == (t % 32) + 1

is_stack(t) == t < 64

is_empty(t) == t >= 128

is_board_tile(t) == is_stack(t) \/ is_empty(t)

(***************************************************************************)
(* Board geometry (board.rs 106-214).                                      *)
(***************************************************************************)
DIRECTION_OFFSETS ==
    << <<0, 1>>, <<1, 1>>, <<1, 0>>, <<0, -1>>, <<-1, -1>>, <<-1, 0>> >>

add_offset(c, off) == <<c[1] + off[1], c[2] + off[2]>>

num_rows(b) == Len(b.tiles) \div b.row_length

\* `x as usize`: a negative isize becomes a value above every board dimension.
\* The model keeps 16 bits of the 64; no board of the model has a dimension
\* near 2^16.
AsUsize(x) == IF x < 0 THEN x + 65536 ELSE x

\* The arithmetic wraps as usize arithmetic does without overflow checks.
coords_to_index(b, c) == (b.row_length * AsUsize(c[1]) + AsUsize(c[2])) % 65536

\* The arithmetic of coords_to_index leaves usize: a panic when the build
\* checks overflows.
IndexOverflows(b, c) == b.row_length * AsUsize(c[1]) + AsUsize(c[2]) >= 65536

index_to_coords(b, index) == <<index \div b.row_length, index % b.row_length>>

coords_in_range(b, c) ==
    AsUsize(c[1]) < num_rows(b) /\ AsUsize(c[2]) < b.row_length

\* Mutant: the reading checks the index into the vector, not the coordinates.
Index_by_vector_index(b, c) ==
    IF coords_to_index(b, c) < Len(b.tiles) THEN b.tiles[coords_to_index(b, c) + 1]
    ELSE NO_TILE

\* board[coords], the reading Index implementation.
Index(b, c) ==
    IF coords_in_range(b, c) THEN b.tiles[coords_to_index(b, c) + 1] ELSE NO_TILE

\* board[coords] = tile, the IndexMut implementation, for an index inside the
\* vector.
IndexMut(b, c, t) ==
    [b EXCEPT !.tiles[coords_to_index(b, c) + 1] = t]

\* board[coords] = tile for any coordinates (board.rs 136-141): the panic of
\* an overflow when the build checks them, the panic of the bounds check of
\* the vector, or the board with the tile stored.
index_mut(b, c, t, overflow_checks) ==
    IF overflow_checks /\ IndexOverflows(b, c) THEN [kind |-> "Panic"]
    ELSE IF coords_to_index(b, c) >= Len(b.tiles) THEN [kind |-> "Panic"]
    ELSE [kind |-> "Stored", board |-> IndexMut(b, c, t)]

iter_row_major(b) ==
    [i \in 1..Len(b.tiles) |-> <<index_to_coords(b, i - 1), b.tiles[i]>>]

iter_neighbors(b, c) ==
    [d \in 1..6 |->
        <<add_offset(c, DIRECTION_OFFSETS[d]),
          Index(b, add_offset(c, DIRECTION_OFFSETS[d]))>>]

RECURSIVE EmptyRun(_, _, _)
\* iter::successors of iter_empty_straight_line, without its first element.
EmptyRun(b, c, direction) ==
    LET next_coords == add_offset(c, direction)
    IN  IF is_empty(Index(b, next_coords))
        THEN <<next_coords>> \o EmptyRun(b, next_coords, direction)
        ELSE <<>>

iter_empty_straight_line(b, start_coords, direction) ==
    EmptyRun(b, start_coords, direction)

RECURSIVE LineEndsFrom(_, _, _)
LineEndsFrom(b, start_coords, d) ==
    IF d > 6 THEN <<>>
    ELSE LET line == iter_empty_straight_line(b, start_coords, DIRECTION_OFFSETS[d])
         IN  (IF Len(line) = 0 THEN <<>> ELSE <<line[Len(line)]>>)
             \o LineEndsFrom(b, start_coords, d + 1)

\* Mutant: the first cell of each line instead of the last.
line_ends_nearest(b, start_coords) ==
    LET lines == [d \in 1..6 |->
                    iter_empty_straight_line(b, start_coords, DIRECTION_OFFSETS[d])]
        reached == SelectSeq(lines, LAMBDA l : Len(l) > 0)
    IN  [i \in 1..Len(reached) |-> reached[i][1]]

\* filter_map over the six directions of the last cell of each line.
iter_empty_straight_line_ends(b, start_coords) ==
    LineEndsFrom(b, start_coords, 1)

(***************************************************************************)
(* The outer-edge walk (board.rs 216-259).                                 *)
(***************************************************************************)
\* The first board tile in row-major order (find(...).expect(...)).
FirstBoardTileIndex(b) ==
    CHOOSE i \in 1..Len(b.tiles) :
        /\ is_board_tile(b.tiles[i])
        /\ \A j \in 1..(i - 1) : ~is_board_tile(b.tiles[j])

\* iter_neighbors(coords).chain(iter_neighbors(coords)): element k of the 12.
ChainedNeighbor(b, c, k) == iter_neighbors(b, c)[((k - 1) % 6) + 1]

\* Mutant: the neighbours are searched from the first direction on, wherever
\* the walk came from.
NextOnEdge_from_first_direction(b, c, previous_coords, start_coords) ==
    LET found == {k \in 1..6 : is_board_tile(ChainedNeighbor(b, c, k)[2])}
    IN  IF found = {} THEN <<start_coords, Index(b, start_coords)>>
        ELSE ChainedNeighbor(b, c, CHOOSE k \in found : \A k2 \in found : k <= k2)

\* skip_while(!= previous).skip(1).find(is_board_tile).unwrap_or(start): the
\* pair <<next_coords, next>>.
NextOnEdge(b, c, previous_coords, start_coords) ==
    LET at == {k \in 1..12 : ChainedNeighbor(b, c, k)[1] = previous_coords}
        first == IF at = {} THEN 12
                 ELSE CHOOSE k \in at : \A k2 \in at : k <= k2
        found == {k \in (first + 1)..12 : is_board_tile(ChainedNeighbor(b, c, k)[2])}
    IN  IF found = {} THEN <<start_coords, Index(b, start_coords)>>
        ELSE ChainedNeighbor(b, c, CHOOSE k \in found : \A k2 \in found : k <= k2)

RECURSIVE generate_edge(_, _, _, _, _)
\* The loop of generate_edge from the state (previous_coords, coords): the
\* coordinates it yields, in order.  fuel bounds the iterations the model
\* follows; the walk is a permutation of the directed edges between board
\* tiles, so 6 * cells + 1 iterations cover every walk that comes back.
generate_edge(b, start_coords, previous_coords, c, fuel) ==
    IF fuel = 0 THEN <<>>
    ELSE LET nx == NextOnEdge(b, c, previous_coords, start_coords)
             yielded == IF is_empty(nx[2]) THEN <<nx[1]>> ELSE <<>>
         IN  IF nx[1] = start_coords THEN yielded
             ELSE yielded \o generate_edge(b, start_coords, c, nx[1], fuel - 1)

iter_empty_outer_edge(b) ==
    LET start_coords == index_to_coords(b, FirstBoardTileIndex(b) - 1)
    IN  generate_edge(b, start_coords, add_offset(start_coords, <<0, -1>>),
                      start_coords, 6 * Len(b.tiles) + 1)

(***************************************************************************)
(* Move generator (board.rs 456-501).                                      *)
(***************************************************************************)
RECURSIVE Concat(_)
\* flat_map: the concatenation of a sequence of sequences.
Concat(ss) == IF Len(ss) = 0 THEN <<>> ELSE Head(ss) \o Concat(Tail(ss))

\* Mutant: the origin keeps its whole stack.
SplitsOnto_keep_origin(b, p, origin_coords, stack, target_coords) ==
    [split \in 1..(stack_size(stack) - 1) |->
        IndexMut(b, target_coords, Tile_new(Stack, p, split))]

\* Mutant: the whole stack moves and leaves an Empty tile behind.
SplitsOnto_moves_whole_stack(b, p, origin_coords, stack, target_coords) ==
    [split \in 1..(stack_size(stack) - 1) |->
        IndexMut(IndexMut(b, target_coords, Tile_new(Stack, p, stack_size(stack))),
                 origin_coords, EMPTY)]

\* Mutant: the origin keeps one sheep whatever the split.
SplitsOnto_origin_keeps_one(b, p, origin_coords, stack, target_coords) ==
    [split \in 1..(stack_size(stack) - 1) |->
        IndexMut(IndexMut(b, target_coords, Tile_new(Stack, p, split)),
                 origin_coords, Tile_new(Stack, p, 1))]

\* The splits of one stack onto one line end (board.rs 481-488).
SplitsOnto(b, p, origin_coords, stack, target_coords) ==
    [split \in 1..(stack_size(stack) - 1) |->
        IndexMut(IndexMut(b, target_coords, Tile_new(Stack, p, split)),
                 origin_coords,
                 Tile_new(Stack, p, stack_size(stack) - split))]

MovesOfStack(b, p, origin_coords, stack) ==
    LET ends == iter_empty_straight_line_ends(b, origin_coords)
    IN  Concat([e \in 1..Len(ends) |->
                    SplitsOnto(b, p, origin_coords, stack, ends[e])])

possible_regular_moves(b, p) ==
    LET cells == iter_row_major(b)
    IN  Concat([i \in 1..Len(cells) |->
                    IF /\ is_stack(cells[i][2])
                       /\ tile_player(cells[i][2]) = p
                       /\ stack_size(cells[i][2]) > 1
                    THEN MovesOfStack(b, p, cells[i][1], cells[i][2])
                    ELSE <<>>])

\* Mutant: the placed stack has MAX_STACK_SIZE sheep instead of 16.
starting_moves_max_size(b, p) ==
    LET edge == iter_empty_outer_edge(b)
    IN  [i \in 1..Len(edge) |->
            IndexMut(b, edge[i], Tile_new(Stack, p, MAX_STACK_SIZE))]

possible_starting_moves(b, p) ==
    LET edge == iter_empty_outer_edge(b)
    IN  [i \in 1..Len(edge) |-> IndexMut(b, edge[i], Tile_new(Stack, p, 16))]

possible_moves(b, p) ==
    LET player_has_stacks ==
            \E i \in 1..Len(b.tiles) :
                is_stack(b.tiles[i]) /\ tile_player(b.tiles[i]) = p
    IN  IF player_has_stacks THEN possible_regular_moves(b, p)
        ELSE possible_starting_moves(b, p)

(***************************************************************************)
(* Evaluator (board.rs 503-657).                                           *)
(***************************************************************************)
I32_MAX == 2147483647
I32_MIN == -I32_MAX - 1

\* Rust's integer division truncates toward zero; d > 0.
TruncDiv(a, d) == IF a >= 0 THEN a \div d ELSE -((-a) \div d)

i32_max(a, c) == IF a >= c THEN a ELSE c
i32_min(a, c) == IF a <= c THEN a ELSE c

RECURSIVE PushNeighbors(_, _, _, _, _, _)
\* The for loop over the six neighbours from direction d on (board.rs
\* 629-636): every unvisited stack of the player is marked and pushed.
\* Returns <<visited, dfs_stack>>.
PushNeighbors(b, p, nbs, visited, dfs_stack, d) ==
    IF d > 6 THEN <<visited, dfs_stack>>
    ELSE IF /\ is_stack(nbs[d][2])
            /\ tile_player(nbs[d][2]) = p
            /\ ~visited[coords_to_index(b, nbs[d][1]) + 1]
    THEN PushNeighbors(b, p, nbs,
                       [visited EXCEPT ![coords_to_index(b, nbs[d][1]) + 1] = TRUE],
                       Append(dfs_stack, nbs[d][1]), d + 1)
    ELSE PushNeighbors(b, p, nbs, visited, dfs_stack, d + 1)

RECURSIVE FieldDfs(_, _, _, _, _)
\* The while-let loop of the depth-first search (board.rs 625-637): pops the
\* last pushed coordinate, counts it and pushes its unvisited same-owner
\* stack neighbours.  Returns <<visited, field_size>>.
FieldDfs(b, p, visited, dfs_stack, field_size) ==
    IF Len(dfs_stack) = 0 THEN <<visited, field_size>>
    ELSE LET after == PushNeighbors(b, p,
                          iter_neighbors(b, dfs_stack[Len(dfs_stack)]), visited,
                          SubSeq(dfs_stack, 1, Len(dfs_stack) - 1), 1)
         IN  FieldDfs(b, p, after[1], after[2], field_size + 1)

RECURSIVE FieldScan(_, _, _, _, _)
\* The row-major loop of largest_connected_field_holder from index i on.
\* Returns <<min_largest_field, max_largest_field>>.
FieldScan(b, i, visited, min_largest_field, max_largest_field) ==
    IF i > Len(b.tiles) THEN <<min_largest_field, max_largest_field>>
    ELSE IF is_stack(b.tiles[i]) /\ ~visited[i]
    THEN LET p == tile_player(b.tiles[i])
             r == FieldDfs(b, p, [visited EXCEPT ![i] = TRUE],
                           <<index_to_coords(b, i - 1)>>, 0)
         IN  IF p = Min
             THEN FieldScan(b, i + 1, r[1], i32_max(min_largest_field, r[2]),
                            max_largest_field)
             ELSE FieldScan(b, i + 1, r[1], min_largest_field,
                            i32_max(max_largest_field, r[2]))
    ELSE FieldScan(b, i + 1, visited, min_largest_field, max_largest_field)

None == "None"

\* Some(Player) is the player, None is None.
largest_connected_field_holder(b) ==
    LET f == FieldScan(b, 1, [i \in 1..Len(b.tiles) |-> FALSE], 0, 0)
    IN  IF f[1] > f[2] THEN Min
        ELSE IF f[2] > f[1] THEN Max
        ELSE None

\* The accumulators of heuristic_evaluate before its loop (board.rs 507-516).
\* Mutant: a player counts as blocked only once a blocked stack is seen.
HeurStart_unblocked ==
    [value |-> 0, max_all_blocked |-> FALSE, min_all_blocked |-> FALSE,
     max_stacks |-> 0, min_stacks |-> 0,
     max_largest_stack |-> 0, max_smallest_stack |-> I32_MAX,
     min_largest_stack |-> 0, min_smallest_stack |-> I32_MAX]

\* The accumulators before the loop (board.rs 507-516).
HeurStart ==
    [value |-> 0, max_all_blocked |-> TRUE, min_all_blocked |-> TRUE,
     max_stacks |-> 0, min_stacks |-> 0,
     max_largest_stack |-> 0, max_smallest_stack |-> I32_MAX,
     min_largest_stack |-> 0, min_smallest_stack |-> I32_MAX]

\* Mutant: only neighbouring stacks block a direction.
BlockedDirections_by_stacks(b, i) ==
    Cardinality({d \in 1..6 :
            is_stack(iter_neighbors(b, index_to_coords(b, i - 1))[d][2])})

\* The number of neighbours of cell i that are not Empty (board.rs 522-526).
BlockedDirections(b, i) ==
    6 - Cardinality({d \in 1..6 :
            is_empty(iter_neighbors(b, index_to_coords(b, i - 1))[d][2])})

\* The accumulators after a stack of p with size sheep and blocked_directions
\* blocked directions (board.rs 528-556).
HeurStack(acc, p, size, blocked_directions) ==
    IF p = Min
    THEN [acc EXCEPT
            !.min_all_blocked =
                IF size > 1 /\ blocked_directions < 6 THEN FALSE ELSE @,
            !.value = @ + (size - 1) * blocked_directions,
            !.min_stacks = @ + 1,
            !.min_largest_stack = i32_max(@, size),
            !.min_smallest_stack = i32_min(@, size)]
    ELSE [acc EXCEPT
            !.max_all_blocked =
                IF size > 1 /\ blocked_directions < 6 THEN FALSE ELSE @,
            !.value = @ - (size - 1) * blocked_directions,
            !.max_stacks = @ + 1,
            !.max_largest_stack = i32_max(@, size),
            !.max_smallest_stack = i32_min(@, size)]

\* One iteration of the loop over the tiles (board.rs 518-559).
HeurTile(b, acc, i) ==
    IF ~is_stack(b.tiles[i]) THEN acc
    ELSE HeurStack(acc, tile_player(b.tiles[i]), stack_size(b.tiles[i]),
                   BlockedDirections(b, i))

RECURSIVE HeurLoop(_, _, _)
HeurLoop(b, acc, i) ==
    IF i > Len(b.tiles) THEN acc ELSE HeurLoop(b, HeurTile(b, acc, i), i + 1)

\* The value after the even-split terms (board.rs 561-564).
IncrementalValue(acc) ==
    (acc.value + TruncDiv(acc.min_largest_stack - acc.min_smallest_stack, 2))
    - TruncDiv(acc.max_largest_stack - acc.max_smallest_stack, 2)

\* Mutant: a drawn end keeps the incremental value.
EndGameValue_draw_keeps_value(acc, value, holder) ==
    IF acc.min_all_blocked /\ acc.max_all_blocked
    THEN IF acc.max_stacks > acc.min_stacks THEN 1000000
         ELSE IF acc.min_stacks > acc.max_stacks THEN -1000000
         ELSE IF holder = Max THEN 1000000
         ELSE IF holder = Min THEN -1000000
         ELSE value
    ELSE IF acc.min_all_blocked
    THEN IF acc.max_stacks >= acc.min_stacks THEN 1000000
         ELSE IF holder = Max THEN 1000000
         ELSE value
    ELSE IF acc.max_all_blocked
    THEN IF acc.min_stacks >= acc.max_stacks THEN -1000000
         ELSE IF holder = Min THEN -1000000
         ELSE value
    ELSE value

\* Mutant: the end of the game is decided by the connected field before the
\* number of stacks.
EndGameValue_field_first(acc, value, holder) ==
    IF acc.min_all_blocked /\ acc.max_all_blocked
    THEN IF holder = Max THEN 1000000
         ELSE IF holder = Min THEN -1000000
         ELSE IF acc.max_stacks > acc.min_stacks THEN 1000000
         ELSE IF acc.min_stacks > acc.max_stacks THEN -1000000
         ELSE 0
    ELSE IF acc.min_all_blocked
    THEN IF acc.max_stacks >= acc.min_stacks THEN 1000000
         ELSE IF holder = Max THEN 1000000
         ELSE value
    ELSE IF acc.max_all_blocked
    THEN IF acc.min_stacks >= acc.max_stacks THEN -1000000
         ELSE IF holder = Min THEN -1000000
         ELSE value
    ELSE value

\* Mutant: a blocked player with more stacks never loses before the end.
EndGameValue_no_field_check(acc, value, holder) ==
    IF acc.min_all_blocked /\ acc.max_all_blocked
    THEN IF acc.max_stacks > acc.min_stacks THEN 1000000
         ELSE IF acc.min_stacks > acc.max_stacks THEN -1000000
         ELSE IF holder = Max THEN 1000000
         ELSE IF holder = Min THEN -1000000
         ELSE 0
    ELSE IF acc.min_all_blocked
    THEN IF acc.max_stacks >= acc.min_stacks THEN 1000000 ELSE value
    ELSE IF acc.max_all_blocked
    THEN IF acc.min_stacks >= acc.max_stacks THEN -1000000 ELSE value
    ELSE value

\* The end-game replacement of the value (board.rs 566-606).
EndGameValue(acc, value, holder) ==
    IF acc.min_all_blocked /\ acc.max_all_blocked
    THEN IF acc.max_stacks > acc.min_stacks THEN 1000000
         ELSE IF acc.min_stacks > acc.max_stacks THEN -1000000
         ELSE IF holder = Max THEN 1000000
         ELSE IF holder = Min THEN -1000000
         ELSE 0
    ELSE IF acc.min_all_blocked
    THEN IF acc.max_stacks >= acc.min_stacks THEN 1000000
         ELSE IF holder = Max THEN 1000000
         ELSE value
    ELSE IF acc.max_all_blocked
    THEN IF acc.min_stacks >= acc.max_stacks THEN -1000000
         ELSE IF holder = Min THEN -1000000
         ELSE value
    ELSE value

\* board.rs 561-606 on the accumulators of the loop.
HeurFinish(b, acc) ==
    EndGameValue(acc, IncrementalValue(acc), largest_connected_field_holder(b))

heuristic_evaluate(b) == HeurFinish(b, HeurLoop(b, HeurStart, 1))

(***************************************************************************)
(* Searcher (lib.rs 12-196).                                               *)
(***************************************************************************)
\* Option<Board>: None is the empty sequence, Some(b) the sequence of b alone.
NoneBoard == <<>>
Some(b) == <<b>>

\* -x on an i32: i32::MIN has no negation and wraps to itself.
i32_neg(x) == IF x = I32_MIN THEN I32_MIN ELSE -x

\* The sort key of a successor (lib.rs 40-42, 129-131).
SortKey(p, next_board) == (-sign(p)) * heuristic_evaluate(next_board)

\* A stable sort of sq, ascending in key, key[i] the key of sq[i].
StableSort(sq, key) ==
    [k \in 1..Len(sq) |->
        sq[CHOOSE i \in 1..Len(sq) :
            k = 1 + Cardinality({j \in 1..Len(sq) : key[j] < key[i]})
                  + Cardinality({j \in 1..(i - 1) : key[j] = key[i]})]]

\* sort_by_cached_key: a stable sort, ascending, the key computed once for
\* every element.
sort_iter_by_cached_key(sq, p) ==
    StableSort(sq, [i \in 1..Len(sq) |-> SortKey(p, sq[i])])

\* Mutant: the heuristic value is not turned to the player's point of view.
LeafValue_unsigned(p, b) == <<heuristic_evaluate(b), 1>>

\* The value of a position that is not searched further (lib.rs 100-102, 117,
\* 144-146): <<value, visited>>.
LeafValue(p, b) == <<sign(p) * heuristic_evaluate(b), 1>>

\* The successors evaluate iterates over (lib.rs 126-139): sorted only when
\* more than one level remains.
SuccessorsInOrder(p, b, depth) ==
    IF depth > 1 THEN sort_iter_by_cached_key(possible_moves(b, p), p)
    ELSE possible_moves(b, p)

\* Mutant: a position without successors keeps the result of the search.
EvaluateWith_keeps_search(p, b, depth, searched) ==
    IF depth = 0 THEN LeafValue(p, b) ELSE searched

\* evaluate (lib.rs 108-150) around its call of minimax_evaluate, whose result
\* is `searched`: at depth 0, and when no successor was evaluated, the
\* position is valued by the heuristic.
EvaluateWith(p, b, depth, searched) ==
    IF depth = 0 \/ searched[1] = I32_MIN THEN LeafValue(p, b) ELSE searched

\* Mutant: the loop never returns early.
BetaCutoff_never(value, bt) == FALSE

\* Mutant: the cutoff compares with the negated bound.
BetaCutoff_negated_bound(value, bt) == value >= -bt

\* lib.rs 186: the beta cutoff.
BetaCutoff(value, bt) == value >= bt

\* lib.rs 191: the new lower bound of the window.
RaisedAlpha(a, value) == i32_max(a, value)

RECURSIVE MinimaxLoop(_, _, _, _, _, _, _, _)

\* The body of the for loop of minimax_evaluate (lib.rs 180-192) once the
\* successor mvs[i] has the value `value` and `visited` nodes are counted.
MinimaxFold(p, mvs, i, depth, a, bt, max_value, value, visited) ==
    IF value > max_value
    THEN IF BetaCutoff(value, bt) THEN <<value, visited>>
         ELSE MinimaxLoop(p, mvs, i + 1, depth, RaisedAlpha(a, value), bt,
                          value, visited)
    ELSE MinimaxLoop(p, mvs, i + 1, depth, a, bt, max_value, visited)

\* lib.rs 178-180: the successor's result r = <<value, visited>> is negated
\* and counted.
MinimaxCount(p, mvs, i, depth, a, bt, max_value, total_visited, r) ==
    MinimaxFold(p, mvs, i, depth, a, bt, max_value, i32_neg(r[1]),
                total_visited + r[2])

\* The for loop of minimax_evaluate from move i on (lib.rs 167-195), the
\* call of evaluate on the successor (lib.rs 108-150) unfolded in place.
\* Returns <<max_value, total_visited>>.
MinimaxLoop(p, mvs, i, depth, a, bt, max_value, total_visited) ==
    IF i > Len(mvs) THEN <<max_value, total_visited>>
    ELSE MinimaxCount(p, mvs, i, depth, a, bt, max_value, total_visited,
            EvaluateWith(opposite(p), mvs[i], depth - 1,
                MinimaxLoop(opposite(p),
                            SuccessorsInOrder(opposite(p), mvs[i], depth - 1),
                            1, depth - 1, i32_neg(bt), i32_neg(a), I32_MIN, 0)))

minimax_evaluate(p, mvs, depth, a, bt) ==
    MinimaxLoop(p, mvs, 1, depth, a, bt, I32_MIN, 0)

\* Returns <<max_value, total_visited>>.
evaluate(p, b, depth, a, bt) ==
    EvaluateWith(p, b, depth,
        minimax_evaluate(p, SuccessorsInOrder(p, b, depth), depth, a, bt))

(***************************************************************************)
(* Board text notation (board.rs 305-454).  A text is the sequence of its  *)
(* rows, the pieces between the line feeds; a row is a sequence of         *)
(* characters.  A character is a one-character string, or "U+00E9" (two    *)
(* bytes in UTF-8, "0xC3" "0xA9") or "U+FFFD" (the replacement character,  *)
(* three bytes).                                                           *)
(***************************************************************************)
\* char::len_utf8
len_utf8(ch) == IF ch = "U+00E9" THEN 2 ELSE IF ch = "U+FFFD" THEN 3 ELSE 1

\* The UTF-8 bytes of a character of a row.
Utf8(ch) == IF ch = "U+00E9" THEN <<"0xC3", "0xA9">> ELSE <<ch>>

RECURSIVE as_bytes(_)
\* str::as_bytes
as_bytes(str) ==
    IF Len(str) = 0 THEN <<>> ELSE Utf8(Head(str)) \o as_bytes(Tail(str))

RECURSIVE from_utf8_lossy(_)
\* String::from_utf8_lossy: a byte that is not part of a whole character
\* becomes U+FFFD.
from_utf8_lossy(bytes) ==
    IF Len(bytes) = 0 THEN <<>>
    ELSE IF bytes[1] = "0xC3"
    THEN IF Len(bytes) >= 2 /\ bytes[2] = "0xA9"
         THEN <<"U+00E9">> \o from_utf8_lossy(SubSeq(bytes, 3, Len(bytes)))
         ELSE <<"U+FFFD">> \o from_utf8_lossy(Tail(bytes))
    ELSE IF bytes[1] = "0xA9"
    THEN <<"U+FFFD">> \o from_utf8_lossy(Tail(bytes))
    ELSE <<bytes[1]>> \o from_utf8_lossy(Tail(bytes))

\* str::len, in bytes.
str_len(str) == Len(as_bytes(str))

Spaces(n) == [i \in 1..n |-> " "]

\* chars().take_while(|char| char == ' ').count()
LeadingSpaces(str) ==
    Cardinality({i \in 1..Len(str) : \A j \in 1..i : str[j] = " "})

\* str::trim_end: the trailing white space is removed.
trim_end(str) ==
    SubSeq(str, 1, Cardinality({i \in 1..Len(str) :
                                    \E j \in i..Len(str) : str[j] # " "}))

\* row_string.trim().is_empty()
IsBlankRow(str) == \A i \in 1..Len(str) : str[i] = " "

\* The smallest element of a non-empty sequence of numbers (Iterator::min)
\* and the largest (Iterator::max).
SeqMin(sq) == CHOOSE x \in {sq[i] : i \in 1..Len(sq)} :
                  \A i \in 1..Len(sq) : x <= sq[i]
SeqMax(sq) == CHOOSE x \in {sq[i] : i \in 1..Len(sq)} :
                  \A i \in 1..Len(sq) : x >= sq[i]

\* bytes.chunks(4)
chunks4(bytes) ==
    [k \in 1..((Len(bytes) + 3) \div 4) |->
        SubSeq(bytes, 4 * (k - 1) + 1,
               IF 4 * k <= Len(bytes) THEN 4 * k ELSE Len(bytes))]

DigitValue(ch) ==
    CASE ch = "0" -> 0 [] ch = "1" -> 1 [] ch = "2" -> 2 [] ch = "3" -> 3
      [] ch = "4" -> 4 [] ch = "5" -> 5 [] ch = "6" -> 6 [] ch = "7" -> 7
      [] ch = "8" -> 8 [] ch = "9" -> 9 [] OTHER -> -1

RECURSIVE DecimalValue(_, _)
\* The number written by the digits, most significant first.
DecimalValue(digits, acc) ==
    IF Len(digits) = 0 THEN acc
    ELSE DecimalValue(Tail(digits), 10 * acc + DigitValue(Head(digits)))

Err(message) == [kind |-> "Err", message |-> message]

\* Ok(value) of a step of the parser.
Got(value) == [kind |-> "Got", value |-> value]

\* str::parse::<u8>: an optional '+', then one digit or more, a value of at
\* most 255.  The value, or the error.
parse_u8(str) ==
    LET digits == IF Len(str) > 0 /\ str[1] = "+" THEN Tail(str) ELSE str
    IN  IF Len(digits) = 0 \/ \E i \in 1..Len(digits) : DigitValue(digits[i]) < 0
        THEN Err("ParseIntError")
        ELSE IF DecimalValue(digits, 0) > 255 THEN Err("ParseIntError")
        ELSE Got(DecimalValue(digits, 0))

\* board.rs 369-382 on a parsed size: the tile, or the error.
StackTile(p, size) ==
    IF size.kind # "Got" THEN size
    ELSE IF size.value > MAX_STACK_SIZE THEN Err("Stack size over 32")
    ELSE IF size.value = 0 THEN Err("Stack size is 0")
    ELSE Got(Tile_new(Stack, p, size.value))

\* board.rs 362-383: the tile of one piece of a row, an error, or the panic
\* of &tile_content[..1] when byte 1 is inside the first character.
ParseTile(tile_content) ==
    IF tile_content = <<>> THEN Got(NO_TILE)
    ELSE IF tile_content = <<" ", "0">> THEN Got(EMPTY)
    ELSE IF len_utf8(tile_content[1]) > 1 THEN [kind |-> "Panic"]
    ELSE IF tile_content[1] = "-" THEN StackTile(Min, parse_u8(Tail(tile_content)))
    ELSE IF tile_content[1] = "+" THEN StackTile(Max, parse_u8(Tail(tile_content)))
    ELSE Err("Invalid tile")

\* board.rs 307-319: the rows that are not blank, row i indented by 2 * i
\* and without its trailing white space.
RowStrings(text) ==
    LET kept == SelectSeq(text, LAMBDA row_string : ~IsBlankRow(row_string))
    IN  [i \in 1..Len(kept) |-> Spaces(2 * (i - 1)) \o trim_end(kept[i])]

\* board.rs 326-332 and 439-445.
StringBeginIndex(row_strings) ==
    (SeqMin([i \in 1..Len(row_strings) |-> LeadingSpaces(row_strings[i])]) \div 2) * 2

\* board.rs 334-341.
RowLength(row_strings) ==
    (SeqMax([i \in 1..Len(row_strings) |-> str_len(row_strings[i])])
        - StringBeginIndex(row_strings) + 3) \div 4

\* board.rs 349-354: chars().chain(repeat(' ')).take(end).skip(begin)
RowContent(row_string, string_begin_index, string_end_index) ==
    SubSeq(row_string \o Spaces(string_end_index), string_begin_index + 1,
           string_end_index)

\* board.rs 357-362: the pieces of a row, each without trailing white space.
TileContents(row_content) ==
    [k \in 1..Len(chunks4(as_bytes(row_content))) |->
        trim_end(from_utf8_lossy(chunks4(as_bytes(row_content))[k]))]

\* The result of the loops of board.rs 347-385 on the parsed pieces, in
\* row-major order: the first error or panic, or the board.
Collected(results, row_length) ==
    IF \E i \in 1..Len(results) : results[i].kind # "Got"
    THEN results[CHOOSE i \in 1..Len(results) :
                    /\ results[i].kind # "Got"
                    /\ \A j \in 1..(i - 1) : results[j].kind = "Got"]
    ELSE [kind |-> "Ok",
          board |-> [tiles |-> [i \in 1..Len(results) |-> results[i].value],
                     row_length |-> row_length]]

\* The pieces of all rows, parsed.
ParsedTiles(row_strings, string_begin_index, string_end_index) ==
    Concat([i \in 1..Len(row_strings) |->
        [k \in 1..Len(TileContents(RowContent(row_strings[i], string_begin_index,
                                              string_end_index))) |->
            ParseTile(TileContents(RowContent(row_strings[i], string_begin_index,
                                              string_end_index))[k])]])

ParseRows(row_strings) ==
    IF Len(row_strings) = 0 THEN Err("Empty board")
    ELSE Collected(
            ParsedTiles(row_strings, StringBeginIndex(row_strings),
                        RowLength(row_strings) * 4 + StringBeginIndex(row_strings)),
            RowLength(row_strings))

\* Board::parse: [kind |-> "Ok", board |-> ...], an error, or a panic.
parse(text) == ParseRows(RowStrings(text))

\* The decimal digits of a u8, as Display prints it.
RECURSIVE Decimal(_)
Decimal(n) ==
    IF n < 10 THEN <<(<<"0", "1", "2", "3", "4", "5", "6", "7", "8", "9">>)[n + 1]>>
    ELSE Decimal(n \div 10)
         \o <<(<<"0", "1", "2", "3", "4", "5", "6", "7", "8", "9">>)[(n % 10) + 1]>>

\* format!("{:<3}", n): padded with spaces on the right to three characters.
PadLeft3(str) == IF Len(str) >= 3 THEN str ELSE str \o Spaces(3 - Len(str))

\* board.rs 411-431.  An escape sequence of a colour is one character here:
\* it is not a space.
TileString(tile, colored) ==
    IF tile_type(tile) = NoTile THEN Spaces(4)
    ELSE IF tile_type(tile) = Empty
    THEN IF colored THEN <<"GREEN", " ", "0", " ", " ", "RESET">>
         ELSE <<" ", "0", " ", " ">>
    ELSE IF colored
    THEN <<IF tile_player(tile) = Min THEN "RED" ELSE "BLUE",
           IF tile_player(tile) = Min THEN "-" ELSE "+">>
         \o PadLeft3(Decimal(stack_size(tile))) \o <<"RESET">>
    ELSE <<IF tile_player(tile) = Min THEN "-" ELSE "+">>
         \o PadLeft3(Decimal(stack_size(tile)))

\* chunks_exact(row_length).enumerate(): row r, counted from 0.
iter_rows(b, r) == SubSeq(b.tiles, r * b.row_length + 1, (r + 1) * b.row_length)

\* board.rs 401-436: the rows before the indentation is cut.
WrittenRows(b, colored) ==
    [k \in 1..num_rows(b) |->
        Spaces((num_rows(b) - 1 - (k - 1)) * 2)
        \o Concat([i \in 1..b.row_length |->
                      TileString(iter_rows(b, k - 1)[i], colored)])]

\* board.rs 447-450.
CutRows(row_strings, string_begin_index) ==
    [k \in 1..Len(row_strings) |->
        trim_end(SubSeq(row_strings[k], string_begin_index + 1,
                        Len(row_strings[k])))]

\* Board::write: the rows of the output, which join("\n") puts together.
write(b, colored) ==
    CutRows(WrittenRows(b, colored), StringBeginIndex(WrittenRows(b, colored)))

(***************************************************************************)
(* The boards the model starts from.  OpenBoards: two rows of MaxCols      *)
(* cells, each cell off-board, empty or a stack of size 1..MaxStackSize,   *)
(* with at most MaxStacks stacks.  EndBoards: two rows of MaxCols + 1      *)
(* cells late in a game: full of single sheep; the same with one cell      *)
(* Empty; the same with one more cell a stack of MaxStackSize sheep.       *)
(* Every board has a board tile, as every board Board::parse returns has   *)
(* (board.rs 310, 321-323).                                                *)
(***************************************************************************)
OpenTiles ==
    {NO_TILE, EMPTY}
    \cup {Tile_new(Stack, p, s) : p \in Players, s \in 1..MaxStackSize}

SingleSheep == {Tile_new(Stack, p, 1) : p \in Players}

NumStacks(ts) == Cardinality({i \in 1..Len(ts) : is_stack(ts[i])})

OpenBoards ==
    {b \in {[tiles |-> r1 \o r2, row_length |-> MaxCols] :
                r1 \in [1..MaxCols -> OpenTiles], r2 \in [1..MaxCols -> OpenTiles]} :
        /\ \E i \in 1..Len(b.tiles) : is_board_tile(b.tiles[i])
        /\ NumStacks(b.tiles) <= MaxStacks}

FullBoards ==
    {[tiles |-> r1 \o r2, row_length |-> MaxCols + 1] :
        r1 \in [1..(MaxCols + 1) -> SingleSheep],
        r2 \in [1..(MaxCols + 1) -> SingleSheep]}

OneEmptyBoards ==
    {[b EXCEPT !.tiles[e] = EMPTY] : b \in FullBoards, e \in 1..(2 * MaxCols + 2)}

OneLargeStackBoards ==
    {[b EXCEPT !.tiles[i] = Tile_new(Stack, p, MaxStackSize)] :
        b \in OneEmptyBoards, i \in 1..(2 * MaxCols + 2), p \in Players}

EndBoards ==
    FullBoards \cup OneEmptyBoards
    \cup {b \in OneLargeStackBoards : \E i \in 1..Len(b.tiles) : is_empty(b.tiles[i])}

InitBoards == OpenBoards \cup EndBoards

\* No text has been read.
TextIdle ==
    /\ input = <<>>
    /\ parsed = [kind |-> "None"]
    /\ output = <<>>

\* No call of evaluate has returned.
EvalIdle == evaluation = <<>>

\* The game loop has not ended.
LoopRuns == announced = [result |-> "None"]

\* No tile has been written through board[coords] = tile.
WriteIdle == written = [kind |-> "None"]

\* No call of choose_move is under way.
SearchIdle ==
    /\ pc = "idle"
    /\ heuristic_depth = 0
    /\ window = <<I32_MIN + 1, I32_MAX>>
    /\ moves = <<>>
    /\ result = [chosen_move |-> NoneBoard, max_value |-> I32_MIN, total_visited |-> 0]
    /\ alpha = I32_MIN + 1
    /\ mutex = 0
    /\ tasks = <<>>
    /\ returned = <<>>

\* Min always starts (main.rs 39-41).
Init ==
    /\ board \in InitBoards
    /\ player = Min
    /\ turns = 0
    /\ SearchIdle
    /\ TextIdle
    /\ EvalIdle
    /\ WriteIdle
    /\ LoopRuns

\* One turn of the game loop (main.rs 45-108) in which choose_move returns
\* a move: the player to move replaces the board by one of its successors
\* and the turn passes to the opponent.  Which successor choose_move picks
\* is left open here.  The model follows at most limit turns.
Turn(limit) ==
    /\ LoopRuns
    /\ turns < limit
    /\ LET mvs == possible_moves(board, player)
       IN  \E i \in 1..Len(mvs) : board' = mvs[i]
    /\ player' = opposite(player)
    /\ turns' = turns + 1
    /\ UNCHANGED search_vars
    /\ UNCHANGED <<text_vars, evaluation, written, announced>>

PlayTurn == Turn(MaxTurns)

\* The last turn of the game loop (main.rs 51-64): choose_move returns None,
\* which it does when the player to move has no successor, and main prints
\* the result from value = sign * val, val the heuristic value from the
\* point of view of the player; the average it prints next divides by turns.
GameOver ==
    /\ LoopRuns
    /\ Len(possible_moves(board, player)) = 0
    /\ announced' =
            [result |-> IF sign(player) * LeafValue(player, board)[1] > 0 THEN "Max won!"
                        ELSE IF sign(player) * LeafValue(player, board)[1] < 0 THEN "Min won!"
                        ELSE "Draw!",
             average |-> IF turns = 0 THEN "Panic" ELSE "Printed"]
    /\ UNCHANGED <<board, player, turns, search_vars, text_vars, evaluation, written>>

Next == PlayTurn \/ GameOver

Spec == Init /\ [][Next]_vars

(***************************************************************************)
(* One call of choose_move (lib.rs 29-105), step by step.  The first       *)
(* successor is evaluated by the calling thread; every other successor is  *)
(* a job spawned into the thread pool, which loads the shared alpha, runs  *)
(* evaluate, takes the lock of result, updates it, raises alpha and        *)
(* releases the lock.  Jobs interleave freely.                             *)
(***************************************************************************)
\* The windows of the calls: the full window of main.rs 49 and a narrow one.
Windows == {<<I32_MIN + 1, I32_MAX>>, <<-2, 2>>}

\* The positions of the calls: boards of OpenBoards without off-board cells
\* on which the player to move has at most MaxMoves successors.
SearchBoards == {b \in OpenBoards : \A i \in 1..Len(b.tiles) : is_board_tile(b.tiles[i])}

InitSearch ==
    /\ board \in SearchBoards
    /\ player \in Players
    /\ Len(possible_moves(board, player)) <= MaxMoves
    /\ turns = 0
    /\ pc = "call"
    /\ heuristic_depth \in 1..MaxDepth
    /\ window \in Windows
    /\ moves = <<>>
    /\ result = [chosen_move |-> NoneBoard, max_value |-> I32_MIN, total_visited |-> 0]
    /\ alpha = window[1]
    /\ mutex = 0
    /\ tasks = <<>>
    /\ returned = <<>>
    /\ TextIdle
    /\ EvalIdle
    /\ WriteIdle
    /\ LoopRuns

\* Mutant: the value of the successor is not negated.
Negated_keeps_sign(r) == r

\* -value and visited of a result of evaluate (lib.rs 56-62).
Negated(r) == <<i32_neg(r[1]), r[2]>>

\* What a job computes between loading alpha and taking the lock
\* (lib.rs 55-62): <<value, visited>>.
JobValue(next_board, loaded_alpha) ==
    Negated(evaluate(opposite(player), next_board, heuristic_depth - 1,
                     i32_neg(window[2]), i32_neg(loaded_alpha)))

\* Mutant: a better value replaces the value but not the chosen move.
Folded_keeps_move(res, next_board, value, visited) ==
    IF value > res.max_value
    THEN [chosen_move |-> IF res.chosen_move = NoneBoard THEN Some(next_board)
                          ELSE res.chosen_move,
          max_value |-> value,
          total_visited |-> res.total_visited + visited]
    ELSE [res EXCEPT !.total_visited = @ + visited]

\* Mutant: the value folded last is kept, better or not.
Folded_keeps_latest(res, next_board, value, visited) ==
    [chosen_move |-> Some(next_board), max_value |-> value,
     total_visited |-> res.total_visited + visited]

\* Mutant: the nodes of a job that does not improve the result are not
\* counted.
Folded_counts_improving_only(res, next_board, value, visited) ==
    IF value > res.max_value
    THEN [chosen_move |-> Some(next_board), max_value |-> value,
          total_visited |-> res.total_visited + visited]
    ELSE res

\* The update of result under the lock (lib.rs 65-71).
Folded(res, next_board, value, visited) ==
    IF value > res.max_value
    THEN [chosen_move |-> Some(next_board), max_value |-> value,
          total_visited |-> res.total_visited + visited]
    ELSE [res EXCEPT !.total_visited = @ + visited]

\* Mutant: alpha.store in the place of alpha.fetch_max.
FetchMax_stores(improved, res) ==
    IF improved THEN res.max_value ELSE alpha

\* alpha.fetch_max(max_value) of a job that improved the result (lib.rs 72-76).
FetchMax(improved, res) ==
    IF improved THEN i32_max(alpha, res.max_value) ELSE alpha

\* lib.rs 40-48: the successors are sorted, result and alpha are created.
Begin ==
    /\ pc = "call"
    /\ moves' = sort_iter_by_cached_key(possible_moves(board, player), player)
    /\ tasks' = [i \in 1..Len(moves') |->
                    [state |-> "unspawned", loaded |-> window[1], value |-> 0,
                     visited |-> 0, improved |-> FALSE]]
    /\ pc' = "first"
    /\ UNCHANGED <<board, player, turns, heuristic_depth, window, result, alpha,
                   mutex, returned>>
    /\ UNCHANGED <<text_vars, evaluation, written, announced>>

\* Mutant: the first job leaves alpha as it was.
RunAlone_without_fetch_max(i, jv) ==
    /\ result' = Folded(result, moves[i], jv[1], jv[2])
    /\ alpha' = alpha
    /\ tasks' = [tasks EXCEPT ![i] =
                    [state |-> "done", loaded |-> alpha, value |-> jv[1],
                     visited |-> jv[2], improved |-> jv[1] > result.max_value]]

\* evaluate_in_thread run to its end by one thread alone (lib.rs 54-77), jv
\* the job's <<value, visited>>.
RunAlone(i, jv) ==
    /\ result' = Folded(result, moves[i], jv[1], jv[2])
    /\ alpha' = FetchMax(jv[1] > result.max_value, result')
    /\ tasks' = [tasks EXCEPT ![i] =
                    [state |-> "done", loaded |-> alpha, value |-> jv[1],
                     visited |-> jv[2], improved |-> jv[1] > result.max_value]]

\* lib.rs 82-84: the first successor is evaluated on the calling thread.
EvaluateFirst ==
    /\ pc = "first"
    /\ pc' = "scope"
    /\ IF Len(moves) = 0
       THEN UNCHANGED <<result, alpha, tasks>>
       ELSE RunAlone(1, JobValue(moves[1], alpha))
    /\ UNCHANGED <<board, player, turns, heuristic_depth, window, moves, mutex,
                   returned>>
    /\ UNCHANGED <<text_vars, evaluation, written, announced>>

\* lib.rs 89-91: the scope spawns one job per remaining successor, in order.
Spawn(i) ==
    /\ pc = "scope"
    /\ i \in 2..Len(moves)
    /\ tasks[i].state = "unspawned"
    /\ \A j \in 2..(i - 1) : tasks[j].state # "unspawned"
    /\ tasks' = [tasks EXCEPT ![i].state = "spawned"]
    /\ UNCHANGED <<board, player, turns, pc, heuristic_depth, window, moves,
                   result, alpha, mutex, returned>>
    /\ UNCHANGED <<text_vars, evaluation, written, announced>>

\* A job that loaded alpha, holds its <<value, visited>> and waits for the
\* lock.
Evaluated(loaded_alpha, jv) ==
    [state |-> "evaluated", loaded |-> loaded_alpha, value |-> jv[1],
     visited |-> jv[2], improved |-> FALSE]

\* lib.rs 55-62: the job loads alpha and evaluates its successor.
JobEvaluate(i) ==
    /\ pc = "scope"
    /\ i \in 2..Len(moves)
    /\ tasks[i].state = "spawned"
    /\ tasks' = [tasks EXCEPT ![i] = Evaluated(alpha, JobValue(moves[i], alpha))]
    /\ UNCHANGED <<board, player, turns, pc, heuristic_depth, window, moves,
                   result, alpha, mutex, returned>>
    /\ UNCHANGED <<text_vars, evaluation, written, announced>>

\* lib.rs 65-71: the job takes the lock and updates result.
JobLock(i) ==
    /\ pc = "scope"
    /\ i \in 2..Len(moves)
    /\ tasks[i].state = "evaluated"
    /\ mutex = 0
    /\ mutex' = i
    /\ result' = Folded(result, moves[i], tasks[i].value, tasks[i].visited)
    /\ tasks' = [tasks EXCEPT ![i].state = "locked",
                              ![i].improved = tasks[i].value > result.max_value]
    /\ UNCHANGED <<board, player, turns, pc, heuristic_depth, window, moves,
                   alpha, returned>>
    /\ UNCHANGED <<text_vars, evaluation, written, announced>>

\* lib.rs 72-76: alpha.fetch_max, then the lock is released.
JobUnlock(i) ==
    /\ pc = "scope"
    /\ i \in 2..Len(moves)
    /\ tasks[i].state = "locked"
    /\ mutex = i
    /\ alpha' = FetchMax(tasks[i].improved, result)
    /\ mutex' = 0
    /\ tasks' = [tasks EXCEPT ![i].state = "done"]
    /\ UNCHANGED <<board, player, turns, pc, heuristic_depth, window, moves,
                   result, returned>>
    /\ UNCHANGED <<text_vars, evaluation, written, announced>>

\* lib.rs 88-104: the scope ends when every job has finished; the result is
\* returned, or the heuristic value when no successor was evaluated.
Return ==
    /\ pc = "scope"
    /\ \A i \in 1..Len(moves) : tasks[i].state = "done"
    /\ returned' =
            IF result.max_value = I32_MIN
            THEN <<NoneBoard>> \o LeafValue(player, board)
            ELSE <<result.chosen_move, result.max_value, result.total_visited>>
    /\ pc' = "returned"
    /\ UNCHANGED <<board, player, turns, heuristic_depth, window, moves, result,
                   alpha, mutex, tasks>>
    /\ UNCHANGED <<text_vars, evaluation, written, announced>>

NextSearch ==
    \/ Begin
    \/ EvaluateFirst
    \/ \E i \in 2..MaxMoves : Spawn(i)
    \/ \E i \in 2..MaxMoves : JobEvaluate(i)
    \/ \E i \in 2..MaxMoves : JobLock(i)
    \/ \E i \in 2..MaxMoves : JobUnlock(i)
    \/ Return

SpecSearch == InitSearch /\ [][NextSearch]_vars

(***************************************************************************)
(* Growing the board (board.rs 261-303) and the click of the board editor  *)
(* that grows it (gui.rs 222-253).                                         *)
(***************************************************************************)
\* iter::repeat(Tile::NO_TILE).take(n)
NoTiles(n) == [i \in 1..n |-> NO_TILE]

\* Vec::insert(index, x), index counted from 0 and at most the length.
Insert(v, index, x) == SubSeq(v, 1, index) \o <<x>> \o SubSeq(v, index + 1, Len(v))

RECURSIVE InsertInRows(_, _, _, _, _)
\* The loops `for i in 0..num_rows` of board.rs 284-287 and 294-296 from i
\* on: a NoTile is inserted at i * row_length + column, row_length the
\* length after the increment.
InsertInRows(tiles, i, n, row_length, column) ==
    IF i >= n THEN tiles
    ELSE InsertInRows(Insert(tiles, i * row_length + column, NO_TILE),
                      i + 1, n, row_length, column)

\* board.rs 265-276.
ExtendRows(b, r) ==
    IF r = num_rows(b) THEN [b EXCEPT !.tiles = @ \o NoTiles(b.row_length)]
    ELSE IF r = -1 THEN [b EXCEPT !.tiles = NoTiles(b.row_length) \o @]
    ELSE b

\* board.rs 278-300.
ExtendColumns(b, q) ==
    IF q = b.row_length
    THEN [tiles |-> InsertInRows(b.tiles, 0, num_rows(b), b.row_length + 1,
                                 b.row_length),
          row_length |-> b.row_length + 1]
    ELSE IF q = -1
    THEN [tiles |-> InsertInRows(b.tiles, 0, num_rows(b), b.row_length + 1, 0),
          row_length |-> b.row_length + 1]
    ELSE b

\* Mutant: a column added before the first one shifts nothing.
ResultingOffset_no_column_shift(b, c) ==
    <<IF c[1] = num_rows(b) THEN 0 ELSE IF c[1] = -1 THEN 1 ELSE 0, 0>>

\* (offset_r, offset_q) of board.rs 263, 275, 299, 302.
ResultingOffset(b, c) ==
    <<IF c[1] = num_rows(b) THEN 0 ELSE IF c[1] = -1 THEN 1 ELSE 0,
      IF c[2] = b.row_length THEN 0 ELSE IF c[2] = -1 THEN 1 ELSE 0>>

\* The board after the call and the returned offset.
extend_to_contain(b, c) ==
    [board |-> ExtendColumns(ExtendRows(b, c[1]), c[2]),
     offset |-> ResultingOffset(b, c)]

\* The editor starts from one Empty cell (gui.rs 36-39).
InitEdit ==
    /\ board = [tiles |-> <<EMPTY>>, row_length |-> 1]
    /\ player = Min
    /\ turns = 0
    /\ SearchIdle
    /\ TextIdle
    /\ EvalIdle
    /\ WriteIdle
    /\ LoopRuns

\* gui.rs 240-251 on the result of extend_to_contain: the clicked cell,
\* shifted by the offset, becomes Empty.  hover_stack has no origin here: an
\* origin is a stack left on the board, and the click requires a board
\* without stacks.
Clicked(c, extended) ==
    IndexMut(extended.board, add_offset(c, extended.offset), EMPTY)

\* A click on an off-board cell next to a board tile while no stack is on the
\* board (gui.rs 222-253).  The model stops growing at MaxGrid rows and
\* columns.
ClickNoTile(c) ==
    /\ tile_type(Index(board, c)) = NoTile
    /\ \A i \in 1..Len(board.tiles) : ~is_stack(board.tiles[i])
    /\ \E d \in 1..6 : is_board_tile(iter_neighbors(board, c)[d][2])
    /\ board' = Clicked(c, extend_to_contain(board, c))
    /\ num_rows(board') <= MaxGrid
    /\ board'.row_length <= MaxGrid
    /\ UNCHANGED <<player, turns, search_vars>>
    /\ UNCHANGED <<text_vars, evaluation, written, announced>>

NextEdit == \E c \in ((-1)..MaxGrid) \X ((-1)..MaxGrid) : ClickNoTile(c)

SpecEdit == InitEdit /\ [][NextEdit]_vars

(***************************************************************************)
(* Reading and printing the starting board (main.rs 34-36, 111-119).       *)
(***************************************************************************)
\* The pieces the rows of the texts are made of: the four pieces of a board
\* without large stacks,
PlainCells ==
    {<<" ", " ", " ", " ">>, <<" ", "0", " ", " ">>, <<"+", "1", " ", " ">>,
     <<"-", "3", " ", " ">>}

\* and the largest stack, sizes written in other ways, sizes out of range,
\* pieces that are no tile, and a character of two bytes.
OddCells ==
    {<<"+", "3", "2", " ">>, <<"+", "0", "1", " ">>, <<"+", "+", "1", " ">>,
     <<"+", "0", " ", " ">>, <<"+", "3", "3", " ">>, <<"+", "x", " ", " ">>,
     <<"x", "1", " ", " ">>, <<" ", "+", "1", " ">>,
     <<"U+00E9", " ", " ", " ">>}

\* The rows of at most MaxCells pieces after at most MaxIndent spaces.
RowsOf(cells) ==
    {Spaces(k) \o Concat(cs) :
        k \in 0..MaxIndent,
        cs \in UNION {[1..n -> cells] : n \in 1..MaxCells}}

\* The texts of at most n rows.
TextsOf(rows, n) == UNION {[1..m -> rows] : m \in 1..n}

\* The texts read: one row of any pieces, several rows of plain pieces, the
\* same with a blank row after the first row, and texts without a row that
\* is not blank.
Texts ==
    TextsOf(RowsOf(PlainCells \cup OddCells), 1)
        \cup TextsOf(RowsOf(PlainCells), MaxTextRows)
        \cup {<<t[1], Spaces(1)>> \o Tail(t) :
                t \in TextsOf(RowsOf(PlainCells), MaxTextRows) \ TextsOf(RowsOf(PlainCells), 1)}
        \cup {<<>>, <<Spaces(2)>>, <<<<>>, Spaces(1)>>}

\* Before the board is read there is none: the model holds no tile.
InitText ==
    /\ input \in Texts
    /\ parsed = [kind |-> "None"]
    /\ output = <<>>
    /\ board = [tiles |-> <<>>, row_length |-> 1]
    /\ player = Min
    /\ turns = 0
    /\ SearchIdle
    /\ EvalIdle
    /\ WriteIdle
    /\ LoopRuns

\* main.rs 35, 118: the text is parsed; expect() ends the program on an
\* error, and a panic of parse ends it too.
ReadBoard ==
    /\ parsed.kind = "None"
    /\ parsed' = parse(input)
    /\ board' = IF parsed'.kind = "Ok" THEN parsed'.board ELSE board
    /\ UNCHANGED <<input, output, player, turns, search_vars, evaluation, written,
                   announced>>

\* main.rs 36 (colored) and tests.rs 14 (not colored): the board is written.
WriteBoard(colored) ==
    /\ parsed.kind = "Ok"
    /\ output = <<>>
    /\ output' = <<colored, write(board, colored)>>
    /\ UNCHANGED <<input, parsed, board, player, turns, search_vars, evaluation,
                   written, announced>>

NextText == ReadBoard \/ \E colored \in BOOLEAN : WriteBoard(colored)

SpecText == InitText /\ [][NextText]_vars

(***************************************************************************)
(* One call of evaluate (lib.rs 108-150) on a position, for either player. *)
(***************************************************************************)
\* The windows of the calls: those of choose_move and two that are not their
\* own mirror image.
EvalWindows == Windows \cup {<<0, 3>>, <<-3, 0>>}

InitEval ==
    /\ board \in SearchBoards
    /\ player \in Players
    /\ \A p \in Players : Len(possible_moves(board, p)) <= MaxMoves
    /\ turns = 0
    /\ pc = "idle"
    /\ heuristic_depth \in 0..MaxDepth
    /\ window \in EvalWindows
    /\ moves = <<>>
    /\ result = [chosen_move |-> NoneBoard, max_value |-> I32_MIN, total_visited |-> 0]
    /\ alpha = window[1]
    /\ mutex = 0
    /\ tasks = <<>>
    /\ returned = <<>>
    /\ TextIdle
    /\ EvalIdle
    /\ WriteIdle
    /\ LoopRuns

Evaluate ==
    /\ evaluation = <<>>
    /\ evaluation' = evaluate(player, board, heuristic_depth, window[1], window[2])
    /\ UNCHANGED <<board, player, turns, search_vars, text_vars, written, announced>>

NextEval == Evaluate

SpecEval == InitEval /\ [][NextEval]_vars

(***************************************************************************)
(* One write through board[coords] = tile (board.rs 136-141), at any       *)
(* coordinates, by a build with or without overflow checks.                *)
(***************************************************************************)
InitWrite ==
    /\ board \in SearchBoards
    /\ player = Min
    /\ turns = 0
    /\ SearchIdle
    /\ TextIdle
    /\ EvalIdle
    /\ WriteIdle
    /\ LoopRuns

WriteTile(c, t, overflow_checks) ==
    /\ written.kind = "None"
    /\ written' = [kind |-> index_mut(board, c, t, overflow_checks).kind,
                   coords |-> c, tile |-> t, before |-> board]
    /\ board' = IF written'.kind = "Stored"
                THEN index_mut(board, c, t, overflow_checks).board
                ELSE board
    /\ UNCHANGED <<player, turns, search_vars, text_vars, evaluation, announced>>

NextWrite ==
    \E c \in ((-2)..MaxRows) \X ((-MaxCols)..(2 * MaxCols)), t \in {EMPTY, Tile_new(Stack, Max, 1)},
       overflow_checks \in BOOLEAN :
        WriteTile(c, t, overflow_checks)

SpecWrite == InitWrite /\ [][NextWrite]_vars

(***************************************************************************)
(* evaluate at depth 0 (lib.rs 117): the heuristic value of boards with    *)
(* small and large stacks, with and without stacks of either player.       *)
(***************************************************************************)
HeurTiles ==
    {NO_TILE, EMPTY, Tile_new(Stack, Min, 1), Tile_new(Stack, Min, 4),
     Tile_new(Stack, Max, 1), Tile_new(Stack, Max, 16)}

HeurBoards ==
    {b \in {[tiles |-> r1 \o r2, row_length |-> MaxCols] :
                r1 \in [1..MaxCols -> HeurTiles], r2 \in [1..MaxCols -> HeurTiles]} :
        \E i \in 1..Len(b.tiles) : is_board_tile(b.tiles[i])}

InitHeur ==
    /\ board \in HeurBoards
    /\ player \in Players
    /\ turns = 0
    /\ SearchIdle
    /\ TextIdle
    /\ EvalIdle
    /\ WriteIdle
    /\ LoopRuns

SpecHeur == InitHeur /\ [][NextEval]_vars

(***************************************************************************)
(* Whole games of two AIs (main.rs 45-105, option -w) from boards without  *)
(* stacks.                                                                 *)
(***************************************************************************)
GameBoards ==
    {b \in {[tiles |-> r1 \o r2, row_length |-> MaxCols] :
                r1 \in [1..MaxCols -> {NO_TILE, EMPTY}],
                r2 \in [1..MaxCols -> {NO_TILE, EMPTY}]} :
        Cardinality({i \in 1..Len(b.tiles) : is_board_tile(b.tiles[i])})
            \in 1..MaxGameCells}

InitGame ==
    /\ board \in GameBoards
    /\ player = Min
    /\ turns = 0
    /\ SearchIdle
    /\ TextIdle
    /\ EvalIdle
    /\ WriteIdle
    /\ LoopRuns

GameTurn == Turn(MaxGameTurns)

NextGame == GameTurn \/ GameOver

SpecGame == InitGame /\ [][NextGame]_vars

\* The outcomes the None arm can print.
Announcements ==
    [result : {"Max won!", "Min won!", "Draw!"}, average : {"Panic", "Printed"}]

\* What one iteration of the loop does to the turn counter and to the
\* output, whichever arm of the match it takes: the Some arm counts a turn,
\* the None arm prints the outcome.
Iteration ==
    /\ LoopRuns
    /\ \/ turns' = turns + 1 /\ announced' = announced
       \/ turns' = turns /\ announced' \in Announcements

\* The loop of main runs on: as long as it has not reached its break, it
\* makes another iteration in the end.
SpecGameFair == SpecGame /\ WF_<<turns, announced>>(Iteration)

(***************************************************************************)
(* Vocabulary of the properties, stated on coordinates and tiles without   *)
(* the iterators of the source.                                            *)
(***************************************************************************)
SeqToSet(sq) == {sq[i] : i \in 1..Len(sq)}

Cells(b) == (0..(num_rows(b) - 1)) \X (0..(b.row_length - 1))

InBoard(b, c) ==
    c[1] >= 0 /\ c[1] < num_rows(b) /\ c[2] >= 0 /\ c[2] < b.row_length

\* The tile at c, off-board outside the stored rectangle.
At(b, c) == IF InBoard(b, c) THEN b.tiles[c[1] * b.row_length + c[2] + 1] ELSE 64

\* b with the stored cell c replaced by t.
Put(b, c, t) == [b EXCEPT !.tiles[c[1] * b.row_length + c[2] + 1] = t]

\* The byte of a stack of s sheep of player p (board.rs 44-45).
StackOf(p, s) == IF p = Min THEN s - 1 ELSE 32 + s - 1

IsEmptyAt(b, c) == At(b, c) >= 128
IsStackAt(b, c) == At(b, c) < 64
IsBoardTileAt(b, c) == IsEmptyAt(b, c) \/ IsStackAt(b, c)
OwnerAt(b, c) == IF At(b, c) < 32 THEN Min ELSE Max
SizeAt(b, c) == (At(b, c) % 32) + 1

Directions == {<<0, 1>>, <<1, 1>>, <<1, 0>>, <<0, -1>>, <<-1, -1>>, <<-1, 0>>}

Step(c, d, n) == <<c[1] + n * d[1], c[2] + n * d[2]>>

Owned(b, p) == {c \in Cells(b) : IsStackAt(b, c) /\ OwnerAt(b, c) = p}

EmptyNeighbours(b, c) == {d \in Directions : IsEmptyAt(b, Step(c, d, 1))}

\* Length of the unbroken run of Empty cells from c in direction d.
RunLength(b, c, d) ==
    CHOOSE n \in 0..(num_rows(b) + b.row_length) :
        /\ \A j \in 1..n : IsEmptyAt(b, Step(c, d, j))
        /\ ~IsEmptyAt(b, Step(c, d, n + 1))

\* The boards a split-and-slide of player p can produce.
SplitSuccessors(b, p) ==
    UNION {
        {Put(Put(b, Step(o, d, RunLength(b, o, d)), StackOf(p, k)),
             o, StackOf(p, SizeAt(b, o) - k)) :
            k \in 1..(SizeAt(b, o) - 1)} :
        <<o, d>> \in {od \in Owned(b, p) \X Directions :
                        /\ SizeAt(b, od[1]) > 1
                        /\ od[2] \in EmptyNeighbours(b, od[1])}}

Sheep(b, p) ==
    LET RECURSIVE Sum(_)
        Sum(i) == IF i = 0 THEN 0
                  ELSE Sum(i - 1)
                       + (IF b.tiles[i] < 64 /\ (b.tiles[i] < 32) = (p = Min)
                          THEN (b.tiles[i] % 32) + 1 ELSE 0)
    IN  Sum(Len(b.tiles))

Changed(b, m) == {i \in 1..Len(b.tiles) : m.tiles[i] # b.tiles[i]}

(***************************************************************************)
(* C1: when the player owns a stack, possible_moves yields exactly the     *)
(* boards of a split 1 <= k < s of an owned stack of size s > 1 slid to    *)
(* the farthest cell of the run of Empty cells in one of the six           *)
(* directions: none is missing and no other board is yielded.              *)
(***************************************************************************)
C1_RegularMovesExact ==
    \A p \in Players :
        Owned(board, p) # {} =>
            SeqToSet(possible_moves(board, p)) = SplitSuccessors(board, p)

\* A stack of at least 3 sheep with a run of two Empty cells: the destination
\* is not the neighbour, and more than one split exists.
C1_Witness ==
    \E p \in Players : \E o \in Owned(board, p) : \E d \in Directions :
        /\ SizeAt(board, o) >= 3
        /\ RunLength(board, o, d) >= 2
        /\ Len(possible_moves(board, p)) >= 2

(***************************************************************************)
(* C2: when the player owns no stack, possible_moves yields one successor  *)
(* per cell produced by the outer-edge walk, the board with that cell      *)
(* replaced by a stack of 16 of the player, and nothing else; when the     *)
(* player owns a stack, no successor is a placement.                       *)
(***************************************************************************)
C2_StartingMovesExact ==
    \A p \in Players :
        LET succ == possible_moves(board, p)
            edge == iter_empty_outer_edge(board)
        IN  IF Owned(board, p) = {}
            THEN /\ Len(succ) = Len(edge)
                 /\ \A i \in 1..Len(succ) :
                        /\ IsEmptyAt(board, edge[i])
                        /\ succ[i] = Put(board, edge[i], StackOf(p, 16))
                        /\ Sheep(succ[i], p) = 16
            ELSE \A i \in 1..Len(succ) :
                    /\ Cardinality(Changed(board, succ[i])) # 1
                    /\ Sheep(succ[i], p) = Sheep(board, p)

\* A player without stacks on a board whose walk produces two cells or more,
\* and the other player with a stack and a move.
C2_Witness ==
    \E p \in Players :
        /\ Owned(board, p) = {}
        /\ Len(possible_moves(board, p)) >= 2
        /\ Owned(board, opposite(p)) # {}
        /\ Len(possible_moves(board, opposite(p))) >= 1

(***************************************************************************)
(* C3: a successor has the dimensions of the board and differs from it in  *)
(* exactly one previously Empty cell (placement) or in exactly the origin  *)
(* and one previously Empty destination (split); a split keeps the         *)
(* player's number of sheep.                                               *)
(***************************************************************************)
C3_MoveFrame ==
    \A p \in Players :
        LET succ == possible_moves(board, p)
        IN  \A i \in 1..Len(succ) :
                LET m == succ[i]
                    diff == Changed(board, m)
                    MineAfter(j) == m.tiles[j] < 64 /\ (m.tiles[j] < 32) = (p = Min)
                    MineBefore(j) ==
                        board.tiles[j] < 64 /\ (board.tiles[j] < 32) = (p = Min)
                IN  /\ m.row_length = board.row_length
                    /\ Len(m.tiles) = Len(board.tiles)
                    /\ IF Owned(board, p) = {}
                       THEN /\ Cardinality(diff) = 1
                            /\ \A j \in diff :
                                   board.tiles[j] >= 128 /\ MineAfter(j)
                       ELSE /\ Cardinality(diff) = 2
                            /\ \E o \in diff : \E t \in diff :
                                   /\ o # t
                                   /\ MineBefore(o) /\ MineAfter(o)
                                   /\ board.tiles[t] >= 128 /\ MineAfter(t)
                            /\ Sheep(m, p) = Sheep(board, p)

\* Both kinds of successor exist in one state: a player with a splittable
\* stack and a player with none who can place.
C3_Witness ==
    \E p \in Players :
        /\ Owned(board, p) = {}
        /\ Len(possible_moves(board, p)) >= 1
        /\ \E o \in Owned(board, opposite(p)) : SizeAt(board, o) >= 2
        /\ Len(possible_moves(board, opposite(p))) >= 1
        /\ \E c \in Cells(board) : At(board, c) = 64

(***************************************************************************)
(* Regions of the board: connectedness over the six neighbours.            *)
(***************************************************************************)
Adjacent(c1, c2) == \E d \in Directions : Step(c1, d, 1) = c2

RECURSIVE Grow(_, _)
\* The cells of S reachable from R through cells of S.
Grow(S, R) ==
    LET R2 == R \cup {c \in S : \E x \in R : Adjacent(x, c)}
    IN  IF R2 = R THEN R ELSE Grow(S, R2)

BoardTileCells(b) == {c \in Cells(b) : IsBoardTileAt(b, c)}

Connected(b) ==
    LET S == BoardTileCells(b)
    IN  S = {} \/ Grow(S, {CHOOSE c \in S : TRUE}) = S

\* No off-board cell is enclosed by board tiles: every off-board cell of the
\* rectangle padded by one is reachable from the padding's corner.
NoHoles(b) ==
    LET Off == {c \in (-1..num_rows(b)) \X (-1..b.row_length) :
                    ~IsBoardTileAt(b, c)}
    IN  Grow(Off, {<<-1, -1>>}) = Off

\* The Empty cells on the boundary: an Empty cell with a neighbour that is
\* not a board tile.
BoundaryEmpties(b) ==
    {c \in Cells(b) :
        IsEmptyAt(b, c) /\ \E d \in Directions : ~IsBoardTileAt(b, Step(c, d, 1))}

\* Every stack of p has one sheep or no Empty neighbour.
FullyBlocked(b, p) ==
    \A o \in Owned(b, p) : SizeAt(b, o) = 1 \/ EmptyNeighbours(b, o) = {}

(***************************************************************************)
(* C4: possible_moves is empty exactly when the player owns no stack and   *)
(* the outer boundary has no Empty cell, or owns a stack and every owned   *)
(* stack has one sheep or no Empty neighbour.  Stated for the boards whose *)
(* tiles form one region without holes, where the outer boundary is the    *)
(* set of Empty cells with a neighbour that is not a board tile.           *)
(***************************************************************************)
C4_NoMoveExactly ==
    \A p \in Players :
        (Connected(board) /\ NoHoles(board)) =>
            ((Len(possible_moves(board, p)) = 0)
                <=> \/ Owned(board, p) = {} /\ BoundaryEmpties(board) = {}
                    \/ Owned(board, p) # {} /\ FullyBlocked(board, p))

(***************************************************************************)
(* The evaluation, stated on coordinates.                                  *)
(***************************************************************************)
Stacks(b) == {c \in Cells(b) : IsStackAt(b, c)}

SetMax(S) == CHOOSE x \in S : \A y \in S : y <= x
SetMin(S) == CHOOSE x \in S : \A y \in S : x <= y

\* Size of the largest 6-connected group of stacks of p; 0 without stacks.
LargestGroup(b, p) ==
    IF Owned(b, p) = {} THEN 0
    ELSE SetMax({Cardinality(Grow(Owned(b, p), {c})) : c \in Owned(b, p)})

RECURSIVE SumOver(_, _, _)
\* Sum of F(b, c) over the cells c of S.
SumOver(F(_, _), b, S) ==
    IF S = {} THEN 0
    ELSE LET c == CHOOSE x \in S : TRUE
         IN  F(b, c) + SumOver(F, b, S \ {c})

BlockedTerm(b, c) ==
    IF OwnerAt(b, c) = Min
    THEN (SizeAt(b, c) - 1) * (6 - Cardinality(EmptyNeighbours(b, c)))
    ELSE -((SizeAt(b, c) - 1) * (6 - Cardinality(EmptyNeighbours(b, c))))

\* (largest - smallest) / 2 over the stacks of p, who owns a stack.
UnevenTerm(b, p) ==
    LET sizes == {SizeAt(b, c) : c \in Owned(b, p)}
    IN  (SetMax(sizes) - SetMin(sizes)) \div 2

\* The incremental blocked/uneven score of a board where both players own
\* a stack.
IncrementalScore(b) ==
    SumOver(BlockedTerm, b, Stacks(b)) + UnevenTerm(b, Min) - UnevenTerm(b, Max)

(***************************************************************************)
(* C8: on a board where every stack of every player has one sheep or no    *)
(* Empty neighbour, heuristic_evaluate is -1000000, 0 or 1000000.          *)
(***************************************************************************)
C8_BlockedBoardIsTerminal ==
    (FullyBlocked(board, Min) /\ FullyBlocked(board, Max)) =>
        heuristic_evaluate(board) \in {-1000000, 0, 1000000}

\* A finished board with a boxed-in stack of several sheep, whose
\* incremental score is not 0, that ends in a draw.
C8_Witness ==
    /\ FullyBlocked(board, Min) /\ FullyBlocked(board, Max)
    /\ Owned(board, Min) # {} /\ Owned(board, Max) # {}
    /\ IncrementalScore(board) \notin {-1000000, 0, 1000000}
    /\ heuristic_evaluate(board) = 0

(***************************************************************************)
(* C9: when both players are fully blocked the number of stacks decides,   *)
(* whatever the connected groups; with equal numbers the largest group of  *)
(* same-owner stacks decides; with both equal the value is 0.              *)
(***************************************************************************)
C9_EndDecision ==
    (FullyBlocked(board, Min) /\ FullyBlocked(board, Max)) =>
        LET nmax == Cardinality(Owned(board, Max))
            nmin == Cardinality(Owned(board, Min))
            gmax == LargestGroup(board, Max)
            gmin == LargestGroup(board, Min)
        IN  heuristic_evaluate(board) =
                IF nmax > nmin THEN 1000000
                ELSE IF nmin > nmax THEN -1000000
                ELSE IF gmax > gmin THEN 1000000
                ELSE IF gmin > gmax THEN -1000000
                ELSE 0

\* Both fully blocked, Max with more stacks, Min with the larger group.
C9_Witness ==
    /\ FullyBlocked(board, Min) /\ FullyBlocked(board, Max)
    /\ Cardinality(Owned(board, Max)) > Cardinality(Owned(board, Min))
    /\ LargestGroup(board, Min) > LargestGroup(board, Max)
    /\ heuristic_evaluate(board) = 1000000

(***************************************************************************)
(* C10 as stated: when some player is not fully blocked the value is the   *)
(* incremental score and is neither 1000000 nor -1000000.                  *)
(***************************************************************************)
C10_Original ==
    ~(FullyBlocked(board, Min) /\ FullyBlocked(board, Max)) =>
        /\ heuristic_evaluate(board) \notin {-1000000, 1000000}
        /\ (Owned(board, Min) # {} /\ Owned(board, Max) # {}) =>
                heuristic_evaluate(board) = IncrementalScore(board)

(***************************************************************************)
(* C10 amended: when no player is fully blocked the value is the           *)
(* incremental score.  When exactly one player is fully blocked, the value *)
(* is the terminal value for the other player if that one owns at least as *)
(* many stacks as the blocked player or has the strictly larger largest    *)
(* group, and the incremental score otherwise.                             *)
(***************************************************************************)
C10_Amended ==
    LET v == heuristic_evaluate(board)
        Case(blocked, other) ==
            (FullyBlocked(board, blocked) /\ ~FullyBlocked(board, other)) =>
                IF \/ Cardinality(Owned(board, other))
                        >= Cardinality(Owned(board, blocked))
                   \/ LargestGroup(board, other) > LargestGroup(board, blocked)
                THEN v = sign(other) * 1000000
                ELSE v = IncrementalScore(board)
    IN  /\ (~FullyBlocked(board, Min) /\ ~FullyBlocked(board, Max)) =>
                v = IncrementalScore(board)
        /\ Case(Min, Max)
        /\ Case(Max, Min)

\* Exactly one player is fully blocked, owns more stacks than the other and
\* the larger group: the incremental score is returned.
C10_Witness ==
    \E p \in Players :
        /\ FullyBlocked(board, p) /\ ~FullyBlocked(board, opposite(p))
        /\ Cardinality(Owned(board, p)) > Cardinality(Owned(board, opposite(p)))
        /\ heuristic_evaluate(board) = IncrementalScore(board)
        /\ heuristic_evaluate(board) # 0

(***************************************************************************)
(* Reference for the searcher: the exhaustive negamax, without pruning and *)
(* without move ordering, over possible_moves and heuristic_evaluate.      *)
(***************************************************************************)
RECURSIVE Negamax(_, _, _)
Negamax(p, b, d) ==
    LET succ == possible_moves(b, p)
    IN  IF d = 0 \/ Len(succ) = 0 THEN sign(p) * heuristic_evaluate(b)
        ELSE SetMax({-Negamax(opposite(p), succ[i], d - 1) : i \in 1..Len(succ)})

RECURSIVE NegamaxNodesFrom(_, _, _, _)
\* The number of positions the exhaustive negamax scores by the heuristic
\* below the successors i.. of b, b having successors and d > 0.
NegamaxNodesFrom(p, b, d, i) ==
    LET succ == possible_moves(b, p)
    IN  IF i > Len(succ) THEN 0
        ELSE (IF d - 1 = 0 \/ Len(possible_moves(succ[i], opposite(p))) = 0
              THEN 1
              ELSE NegamaxNodesFrom(opposite(p), succ[i], d - 1, 1))
             + NegamaxNodesFrom(p, b, d, i + 1)

NegamaxNodes(p, b, d) ==
    IF d = 0 \/ Len(possible_moves(b, p)) = 0 THEN 1
    ELSE NegamaxNodesFrom(p, b, d, 1)

FullWindow == window = <<I32_MIN + 1, I32_MAX>>

Returned == pc = "returned"

(***************************************************************************)
(* C5: with the full window and a depth of at least 1, the value returned  *)
(* by evaluate and the value returned by choose_move both equal the value  *)
(* of the exhaustive negamax of the position.                              *)
(***************************************************************************)
C5_ValueIsNegamax ==
    FullWindow =>
        /\ pc = "call" =>
              evaluate(player, board, heuristic_depth, window[1], window[2])[1]
                  = Negamax(player, board, heuristic_depth)
        /\ Returned => returned[2] = Negamax(player, board, heuristic_depth)

\* choose_move has returned on a position where the pruning saved nodes.
C5_Witness ==
    /\ FullWindow
    /\ Returned
    /\ heuristic_depth >= 2
    /\ Len(moves) >= 2
    /\ returned[3] < NegamaxNodes(player, board, heuristic_depth)
    /\ returned[2] = Negamax(player, board, heuristic_depth)

(***************************************************************************)
(* C6: with the full window, a move returned by choose_move is a successor *)
(* of the position, the returned value is the negated exhaustive negamax   *)
(* value of that move one level lower for the next player, and no          *)
(* successor has a larger such value.                                      *)
(***************************************************************************)
C6_ChosenMoveIsBest ==
    (FullWindow /\ Returned /\ returned[1] # NoneBoard) =>
        LET succ == possible_moves(board, player)
            worth(m) == -Negamax(opposite(player), m, heuristic_depth - 1)
        IN  /\ \E i \in 1..Len(succ) : returned[1] = Some(succ[i])
            /\ returned[2] = worth(returned[1][1])
            /\ \A i \in 1..Len(succ) : worth(succ[i]) <= returned[2]

\* choose_move has returned a move that wins at once although another
\* successor is worth less.
C6_Witness ==
    /\ FullWindow
    /\ Returned
    /\ returned[1] # NoneBoard
    /\ returned[2] = 1000000
    /\ sign(player) * heuristic_evaluate(returned[1][1]) = 1000000
    /\ \E i \in 1..Len(moves) :
           -Negamax(opposite(player), moves[i], heuristic_depth - 1) < 1000000

(***************************************************************************)
(* C7: choose_move returns None exactly when the position has no           *)
(* successor, and then the value is sign(player) * heuristic_evaluate and  *)
(* the node count is 1.                                                    *)
(***************************************************************************)
C7_NoneIffNoMoves ==
    Returned =>
        /\ returned[1] = NoneBoard <=> Len(possible_moves(board, player)) = 0
        /\ returned[1] = NoneBoard =>
              /\ returned[2] = sign(player) * heuristic_evaluate(board)
              /\ returned[3] = 1

\* choose_move has returned None for a player whose stacks cannot move, on a
\* board whose heuristic value is not 0.
C7_Witness ==
    /\ Returned
    /\ returned[1] = NoneBoard
    /\ Owned(board, player) # {}
    /\ heuristic_evaluate(board) # 0

(***************************************************************************)
(* C11: reading board[(r, q)] is total.  For every pair of signed          *)
(* coordinates it gives the stored tile of that cell when 0 <= r <         *)
(* num_rows and 0 <= q < row_length, and NoTile otherwise.                 *)
(***************************************************************************)
\* The probed coordinates: around the rectangle, negative ones, and far ones.
ProbeCoords ==
    ((-MaxProbe)..MaxProbe) \X ((-MaxProbe)..MaxProbe)
        \cup {<<-30000, 0>>, <<0, -30000>>, <<30000, 0>>, <<0, 30000>>,
              <<-30000, 30000>>, <<30000, 30000>>}

C11_IndexIsTotal ==
    \A c \in ProbeCoords :
        Index(board, c) =
            IF c[1] >= 0 /\ c[1] < num_rows(board)
               /\ c[2] >= 0 /\ c[2] < board.row_length
            THEN board.tiles[c[1] * board.row_length + c[2] + 1]
            ELSE 64

\* After a move, the cell right of the first row's end reads NoTile although
\* the vector holds a stack at that index, and so does the cell left of the
\* second row's start.
C11_Witness ==
    /\ turns = 1
    /\ num_rows(board) >= 2
    /\ board.tiles[board.row_length + 1] < 64
    /\ board.tiles[board.row_length] < 64
    /\ Index(board, <<0, board.row_length>>) = 64
    /\ Index(board, <<1, -1>>) = 64

(***************************************************************************)
(* C12: for a coordinate one step outside the stored rectangle on one or   *)
(* both axes, extend_to_contain adds one row and/or one column, returns    *)
(* the offset (1 on an axis exactly when the coordinate is -1 there), the  *)
(* shifted coordinate is in range afterwards, and every coordinate reads   *)
(* after the call, shifted by the offset, what it read before, so the      *)
(* added cells are all NoTile.  For a coordinate in range nothing changes  *)
(* and the offset is (0, 0).  Rows and row length never decrease.          *)
(***************************************************************************)
\* 1 when x is one step outside 0..(n - 1), else 0.
Outside(x, n) == IF x = -1 \/ x = n THEN 1 ELSE 0

C12_ExtendToContain ==
    \A c \in ((-MaxProbe)..MaxProbe) \X ((-MaxProbe)..MaxProbe) :
        LET e == extend_to_contain(board, c)
            rows == num_rows(board)
            len == board.row_length
        IN  /\ num_rows(e.board) >= rows
            /\ e.board.row_length >= len
            /\ InBoard(board, c) => e.board = board /\ e.offset = <<0, 0>>
            /\ ( /\ c[1] \in (-1)..rows
                 /\ c[2] \in (-1)..len
                 /\ ~InBoard(board, c) ) =>
                    /\ e.offset = <<IF c[1] = -1 THEN 1 ELSE 0,
                                    IF c[2] = -1 THEN 1 ELSE 0>>
                    /\ e.board.row_length = len + Outside(c[2], len)
                    /\ Len(e.board.tiles)
                         = (rows + Outside(c[1], rows)) * e.board.row_length
                    /\ InBoard(e.board, Step(c, e.offset, 1))
                    /\ \A x \in ProbeCoords :
                           At(e.board, Step(x, e.offset, 1)) = At(board, x)

\* The editor's board after a click one step outside on both axes: the two
\* Empty cells sit on a diagonal of a grown 2 x 2 rectangle, and the next
\* growth to the upper left shifts both axes.
C12_Witness ==
    /\ board = [tiles |-> <<128, 64, 64, 128>>, row_length |-> 2]
    /\ extend_to_contain(board, <<-1, -1>>).offset = <<1, 1>>
    /\ Len(extend_to_contain(board, <<-1, -1>>).board.tiles) = 9

(***************************************************************************)
(* C13: on a board whose board tiles form one connected region without     *)
(* holes, the outer-edge walk yields every Empty cell that has a neighbour *)
(* that is not a board tile, each exactly once, and no other cell.         *)
(***************************************************************************)
C13_OuterEdgeExact ==
    (BoardTileCells(board) # {} /\ Connected(board) /\ NoHoles(board)) =>
        LET edge == iter_empty_outer_edge(board)
        IN  /\ SeqToSet(edge) = BoundaryEmpties(board)
            /\ Len(edge) = Cardinality(SeqToSet(edge))

(***************************************************************************)
(* C14, C15: the text notation.                                            *)
(***************************************************************************)
\* The rows of a text that are not blank.
NonBlankRows(text) == SelectSeq(text, LAMBDA row_string : ~IsBlankRow(row_string))

\* The rows of a text without their trailing white space and without their
\* first k columns.
Normalized(text, k) ==
    [i \in 1..Len(text) |-> trim_end(SubSeq(text[i], k + 1, Len(text[i])))]

\* The number of leading columns that are blank in every row.
CommonLeading(text) ==
    IF Len(text) = 0 THEN 0
    ELSE SeqMin([i \in 1..Len(text) |-> LeadingSpaces(text[i])])

\* The pieces of four characters parse cuts the rows of a text into.
CellsOfText(text) ==
    Concat([i \in 1..Len(RowStrings(text)) |->
        chunks4(RowContent(RowStrings(text)[i], StringBeginIndex(RowStrings(text)),
                           RowLength(RowStrings(text)) * 4
                               + StringBeginIndex(RowStrings(text))))])

\* A piece that holds a stack whose size is written as a decimal number
\* would: without a sign of its own and without a leading zero.
PlainlyWritten(cell) ==
    Len(trim_end(cell)) >= 2 /\ cell[1] \in {"+", "-"} => cell[2] \notin {"0", "+"}

\* The board was read from the text and written without colours.
WrittenPlain == parsed.kind = "Ok" /\ output # <<>> /\ output[1] = FALSE

\* C14 as stated: for every text that parse accepts, write(parse(text), false)
\* is the text with its trailing white space and its common leading blank
\* columns removed.
C14_WriteParseIsText ==
    WrittenPlain =>
        \E k \in 0..CommonLeading(input) : output[2] = Normalized(input, k)

\* The round trip on the texts whose stack sizes are all written as plain
\* decimal numbers: the output is the text without its blank rows, with the
\* trailing white space of every row removed and one same number of leading
\* blank columns removed from every row.
RoundTripOfPlainText ==
    WrittenPlain
        /\ (\A i \in 1..Len(CellsOfText(input)) : PlainlyWritten(CellsOfText(input)[i]))
    => \E k \in 0..CommonLeading(NonBlankRows(input)) :
            output[2] = Normalized(NonBlankRows(input), k)

\* A piece the notation allows: blank, the marker of an empty tile, or a
\* sign and a decimal size from 1 to 32.
ValidCell(cell) ==
    \/ trim_end(cell) = <<>>
    \/ trim_end(cell) = <<" ", "0">>
    \/ /\ Len(trim_end(cell)) >= 2
       /\ cell[1] \in {"+", "-"}
       /\ \A j \in 2..Len(trim_end(cell)) : DigitValue(cell[j]) >= 0
       /\ DecimalValue(Tail(trim_end(cell)), 0) \in 1..MAX_STACK_SIZE

\* C15: parse returns an error, and neither a board nor a panic, when the text
\* has no row that is not blank or has a piece the notation does not allow;
\* every board it returns holds only stacks of sizes 1 to 32.
C15_ParseRejects ==
    parsed.kind # "None" =>
        /\ (Len(NonBlankRows(input)) = 0
                \/ \E i \in 1..Len(CellsOfText(input)) : ~ValidCell(CellsOfText(input)[i]))
            => parsed.kind = "Err"
        /\ parsed.kind = "Ok" =>
            \A i \in 1..Len(parsed.board.tiles) :
                is_stack(parsed.board.tiles[i])
                    => stack_size(parsed.board.tiles[i]) \in 1..MAX_STACK_SIZE

(***************************************************************************)
(* C16: evaluate and the player to move.                                   *)
(***************************************************************************)
\* The value evaluate returns for the other player on the same board, at the
\* same depth, with the window negated and swapped.
SwappedValue ==
    evaluate(opposite(player), board, heuristic_depth,
             i32_neg(window[2]), i32_neg(window[1]))[1]

\* C16 as stated: for a fixed board, depth and window, swapping the player to
\* move and negating the bounds negates the value evaluate returns.
C16_SwapNegates ==
    evaluation # <<>> => evaluation[1] = i32_neg(SwappedValue)

\* C16, amended: the swap negates the value when the depth is 0 or neither
\* player has a possible move on the board, the cases in which evaluate
\* returns the heuristic value from the point of view of the player.
C16_SwapNegatesLeaf ==
    evaluation # <<>>
        /\ (heuristic_depth = 0
                \/ \A p \in Players : Len(possible_moves(board, p)) = 0)
    => evaluation[1] = i32_neg(SwappedValue)

\* evaluate has returned a value that is not 0 for a depth of 0 on a board
\* where the players have possible moves.
C16_Witness ==
    /\ evaluation # <<>>
    /\ heuristic_depth = 0
    /\ evaluation[1] # 0
    /\ evaluation[1] = i32_neg(SwappedValue)
    /\ \A p \in Players : Len(possible_moves(board, p)) > 0

(***************************************************************************)
(* C17-C20: the parallel jobs of choose_move.                              *)
(***************************************************************************)
\* The jobs that have folded their result.
FoldedJobs == {i \in 1..Len(tasks) : tasks[i].state \in {"locked", "done"}}

\* The jobs that have loaded alpha.
LoadedJobs == {i \in 1..Len(tasks) : tasks[i].state \in {"evaluated", "locked", "done"}}

RECURSIVE SumVisited(_)
\* The nodes counted by the jobs of S.
SumVisited(S) ==
    IF S = {} THEN 0
    ELSE tasks[CHOOSE i \in S : TRUE].visited
         + SumVisited(S \ {CHOOSE i \in S : TRUE})

\* One step of the search that runs the jobs one after the other: st is
\* <<result, alpha>>, jv the <<value, visited>> of the job of next_board.
SequentialFold(st, next_board, jv) ==
    <<Folded(st[1], next_board, jv[1], jv[2]),
      IF jv[1] > st[1].max_value THEN i32_max(st[2], jv[1]) ELSE st[2]>>

RECURSIVE SequentialFrom(_, _)
\* The <<result, alpha>> of the sequential search from successor i on.
SequentialFrom(i, st) ==
    IF i > Len(moves) THEN st
    ELSE SequentialFrom(i + 1,
            SequentialFold(st, moves[i], JobValue(moves[i], st[2])))

\* The result of the purely sequential search of the call.
Sequential ==
    SequentialFrom(1, <<[chosen_move |-> NoneBoard, max_value |-> I32_MIN,
                         total_visited |-> 0], window[1]>>)[1]

\* C17: with the full window, the value choose_move returns is, under every
\* interleaving of the jobs, the value of the sequential search, and the
\* exact value of the returned move is not below the returned value.
C17_ValueIsScheduleFree ==
    (FullWindow /\ Returned /\ Len(moves) > 0) =>
        /\ returned[2] = Sequential.max_value
        /\ -Negamax(opposite(player), returned[1][1], heuristic_depth - 1)
               >= returned[2]

\* choose_move has returned the value of the sequential search after a job
\* that read an alpha below the value of the first successor's sibling
\* counted more nodes than the sequential search does.
C17_Witness ==
    /\ FullWindow
    /\ Returned
    /\ Len(moves) >= 3
    /\ returned[2] = Sequential.max_value
    /\ returned[3] > Sequential.total_visited
    /\ \E i \in 3..Len(moves) : \E j \in 2..(i - 1) :
           tasks[j].improved /\ tasks[i].loaded < tasks[j].value

\* C18: no job is spawned before the first successor is evaluated and
\* folded, and every job reads an alpha that is at least the initial alpha
\* and at least the value of the first successor.
C18_FirstBeforeJobs ==
    /\ \A i \in 2..Len(tasks) :
           tasks[i].state # "unspawned" =>
               /\ tasks[1].state = "done"
               /\ result.max_value >= tasks[1].value
               /\ result.total_visited >= tasks[1].visited
               /\ alpha >= i32_max(window[1], tasks[1].value)
    /\ \A i \in LoadedJobs \ {1} :
           tasks[i].loaded >= i32_max(window[1], tasks[1].value)

\* A job has read an alpha that the first successor raised above the
\* initial alpha.
C18_Witness ==
    \E i \in LoadedJobs \ {1} :
        /\ tasks[1].value > window[1]
        /\ tasks[i].loaded = tasks[1].value
        /\ tasks[i].loaded > window[1]

\* Between the jobs: alpha is the larger one of the initial alpha and the
\* best value, and the move is that of the one job that improved the
\* result to the best value.
AlphaAndMoveFollowBest ==
    /\ mutex = 0 /\ pc \in {"first", "scope", "returned"}
           => alpha = i32_max(window[1], result.max_value)
    /\ result.chosen_move # NoneBoard =>
           \E i \in FoldedJobs :
               /\ tasks[i].improved
               /\ tasks[i].value = result.max_value
               /\ result.chosen_move = Some(moves[i])
               /\ \A j \in FoldedJobs \ {i} :
                      tasks[j].value = result.max_value => ~tasks[j].improved

\* C19: the shared alpha never decreases; when no job holds the mutex it is
\* max(initial alpha, best value); the best value never decreases; the
\* recorded move is the successor whose job produced the best value, and a
\* later job with an equal value does not replace it.
C19_AlphaAndBestOnlyRise ==
    /\ []AlphaAndMoveFollowBest
    /\ [][alpha' >= alpha /\ result'.max_value >= result.max_value]_vars

\* Two jobs have folded the best value, the later one without replacing the
\* move, and alpha stands above the initial alpha.
C19_Witness ==
    /\ mutex = 0
    /\ alpha > window[1]
    /\ \E i \in FoldedJobs : \E j \in FoldedJobs \ {i} :
           /\ tasks[i].value = result.max_value
           /\ tasks[j].value = result.max_value
           /\ tasks[i].improved
           /\ ~tasks[j].improved
           /\ result.chosen_move = Some(moves[i])
           /\ moves[i] # moves[j]

\* C20: choose_move returns only when every job has finished and released
\* the mutex; result counts the nodes of exactly the jobs that folded, and
\* the returned node count is the sum of the node counts of the evaluations
\* of all successors.
C20_AllJobsFolded ==
    /\ result.total_visited = SumVisited(FoldedJobs)
    /\ \A i \in LoadedJobs :
           tasks[i].visited = JobValue(moves[i], tasks[i].loaded)[2]
    /\ Returned =>
           /\ \A i \in 1..Len(moves) : tasks[i].state = "done"
           /\ mutex = 0
           /\ Len(moves) > 0 => returned[3] = SumVisited(1..Len(moves))

\* choose_move has returned after MaxMoves jobs, some of which did not
\* improve the result.
C20_Witness ==
    /\ Returned
    /\ Len(moves) = MaxMoves
    /\ \E i \in 1..Len(moves) : ~tasks[i].improved
    /\ returned[3] = SumVisited(1..Len(moves))
    /\ returned[3] > Len(moves)

(***************************************************************************)
(* C21: choose_move and evaluate on the same arguments.                    *)
(***************************************************************************)
\* The value evaluate returns on the arguments of the call of choose_move.
InteriorValue ==
    evaluate(player, board, heuristic_depth, window[1], window[2])[1]

\* C21 as stated: for every board, player, depth of 1 or more and window,
\* choose_move returns the value evaluate returns on the same arguments.
C21_SameValueAsEvaluate ==
    Returned => returned[2] = InteriorValue

\* C21, amended: choose_move returns the value of evaluate on the same
\* arguments when that value is below beta; when evaluate stopped at a value
\* of beta or more, choose_move, which evaluates every successor, returns a
\* value that is not smaller.
C21_SameValueBelowBeta ==
    Returned =>
        /\ InteriorValue < window[2] => returned[2] = InteriorValue
        /\ InteriorValue >= window[2] => returned[2] >= InteriorValue

\* choose_move has returned, with a window that is not the full one, the
\* value of evaluate, above alpha and below beta, on a position with
\* several successors.
C21_Witness ==
    /\ Returned
    /\ ~FullWindow
    /\ Len(moves) >= 2
    /\ returned[2] = InteriorValue
    /\ returned[2] > window[1]
    /\ returned[2] < window[2]

(***************************************************************************)
(* C26: writes outside the stored rectangle.                               *)
(***************************************************************************)
\* The coordinates are outside the rectangle of b.
OutOfRectangle(b, c) ==
    c[1] < 0 \/ c[1] >= num_rows(b) \/ c[2] < 0 \/ c[2] >= b.row_length

\* C26: a write through board[(r, q)] = tile at coordinates outside the
\* stored rectangle fails or leaves every stored tile as it was.
C26_OutsideWriteKeepsTiles ==
    written.kind # "None" /\ OutOfRectangle(written.before, written.coords)
        => written.kind = "Panic" \/ board = written.before

(***************************************************************************)
(* C23, C24: the incremental score of heuristic_evaluate.                  *)
(***************************************************************************)
\* The heuristic value behind the value evaluate returned at depth 0.
EvaluatedHeuristic == sign(player) * evaluation[1]

\* C23: on a board where no player is fully blocked, heuristic_evaluate is
\* the sum over the stacks of -sign(owner) * (size - 1) * (6 - number of
\* Empty neighbours), plus for each player -sign(player) * ((largest stack -
\* smallest stack) / 2).
C23_IncrementalScore ==
    (evaluation # <<>> /\ heuristic_depth = 0
        /\ ~FullyBlocked(board, Min) /\ ~FullyBlocked(board, Max))
    => EvaluatedHeuristic = IncrementalScore(board)

\* A board was evaluated where no player is fully blocked, a stack has a
\* neighbour off the board, and both even-split terms count.
C23_Witness ==
    /\ evaluation # <<>>
    /\ heuristic_depth = 0
    /\ ~FullyBlocked(board, Min) /\ ~FullyBlocked(board, Max)
    /\ UnevenTerm(board, Min) > 0
    /\ UnevenTerm(board, Max) > 0
    /\ SumOver(BlockedTerm, board, Stacks(board)) # 0
    /\ EvaluatedHeuristic = IncrementalScore(board)
    /\ EvaluatedHeuristic # 0

RECURSIVE PrefixAcc(_, _)
\* The accumulators of heuristic_evaluate after the first n tiles.
PrefixAcc(b, n) == IF n = 0 THEN HeurStart ELSE HeurTile(b, PrefixAcc(b, n - 1), n)

InI32(x) == x >= I32_MIN /\ x <= I32_MAX

\* Every number heuristic_evaluate computes on b fits an i32.
NoOverflow(b, acc) ==
    /\ \A n \in 0..Len(b.tiles) : InI32(PrefixAcc(b, n).value)
    /\ InI32(acc.min_largest_stack - acc.min_smallest_stack)
    /\ InI32(acc.max_largest_stack - acc.max_smallest_stack)
    /\ InI32(acc.value + TruncDiv(acc.min_largest_stack - acc.min_smallest_stack, 2))
    /\ InI32(IncrementalValue(acc))

\* C24: heuristic_evaluate computes no number outside i32, also when a
\* player owns no stack, and a value it returns from the incremental score
\* is strictly between -1000000 and 1000000.
C24_ScoreBelowWin ==
    (evaluation # <<>> /\ heuristic_depth = 0) =>
        /\ NoOverflow(board, PrefixAcc(board, Len(board.tiles)))
        /\ EvaluatedHeuristic \in {-1000000, 1000000}
               \/ (EvaluatedHeuristic > -1000000 /\ EvaluatedHeuristic < 1000000)
        /\ EvaluatedHeuristic = IncrementalValue(PrefixAcc(board, Len(board.tiles)))
               => (EvaluatedHeuristic > -1000000 /\ EvaluatedHeuristic < 1000000)

\* A board was evaluated on which one player owns no stack and the other
\* one does: the sum of the terms is far above 1000000 and the value
\* returned is 1000000 or -1000000.
C24_Witness ==
    /\ evaluation # <<>>
    /\ heuristic_depth = 0
    /\ (Owned(board, Min) = {}) # (Owned(board, Max) = {})
    /\ IncrementalValue(PrefixAcc(board, Len(board.tiles))) \notin (-1000000)..1000000
    /\ EvaluatedHeuristic \in {-1000000, 1000000}

(***************************************************************************)
(* C22: evaluate is a fail-soft alpha-beta search.                         *)
(***************************************************************************)
\* The values of the successors of the position for the player, one level
\* down, in the order evaluate takes them at depth 1.
LeafValues ==
    [i \in 1..Len(possible_moves(board, player)) |->
        sign(player) * heuristic_evaluate(possible_moves(board, player)[i])]

\* The number of successors up to the first one whose value reaches beta,
\* all of them when none does.
EvaluatedUntilCutoff(values, bt) ==
    IF \E i \in 1..Len(values) : values[i] >= bt
    THEN CHOOSE i \in 1..Len(values) :
            values[i] >= bt /\ \A j \in 1..(i - 1) : values[j] < bt
    ELSE Len(values)

\* C22: the value v of evaluate is the exact negamax value when it lies
\* strictly between alpha and beta, an upper bound of it when v <= alpha and
\* a lower bound of it when v >= beta; and at depth 1, where every successor
\* counts one node, no successor is evaluated after one reached beta.
C22_FailSoftBounds ==
    evaluation # <<>> =>
        /\ (evaluation[1] > window[1] /\ evaluation[1] < window[2])
               => evaluation[1] = Negamax(player, board, heuristic_depth)
        /\ evaluation[1] <= window[1]
               => Negamax(player, board, heuristic_depth) <= evaluation[1]
        /\ evaluation[1] >= window[2]
               => Negamax(player, board, heuristic_depth) >= evaluation[1]
        /\ (heuristic_depth = 1 /\ Len(possible_moves(board, player)) > 0)
               => evaluation[2] = EvaluatedUntilCutoff(LeafValues, window[2])

\* evaluate has stopped at a value of beta or more that is below the exact
\* value, at depth 2, after fewer nodes than the exhaustive search visits.
C22_Witness ==
    /\ evaluation # <<>>
    /\ heuristic_depth = 2
    /\ evaluation[1] >= window[2]
    /\ Negamax(player, board, heuristic_depth) > evaluation[1]
    /\ evaluation[2] < NegamaxNodes(player, board, heuristic_depth)

(***************************************************************************)
(* C25: negations inside the search.                                       *)
(***************************************************************************)
RECURSIVE NegationsSafe(_, _, _, _, _, _, _)
\* The loop of minimax_evaluate from successor i on negates no i32::MIN:
\* not a bound, not the value of a successor, at this level and below.
NegationsSafe(p, mvs, i, depth, a, bt, max_value) ==
    IF depth = 0 \/ i > Len(mvs) THEN TRUE
    ELSE LET val == evaluate(opposite(p), mvs[i], depth - 1, i32_neg(bt), i32_neg(a))[1]
         IN  /\ a # I32_MIN
             /\ bt # I32_MIN
             /\ val # I32_MIN
             /\ NegationsSafe(opposite(p),
                              SuccessorsInOrder(opposite(p), mvs[i], depth - 1),
                              1, depth - 1, i32_neg(bt), i32_neg(a), I32_MIN)
             /\ \/ (-val > max_value /\ -val >= bt)
                \/ NegationsSafe(p, mvs, i + 1, depth,
                                 IF -val > max_value THEN i32_max(a, -val) ELSE a,
                                 bt, i32_max(max_value, -val))

\* C25: with bounds of i32::MIN + 1 at least, choose_move, evaluate and
\* minimax_evaluate negate no i32::MIN, bound or value, and no evaluation
\* of a position returns i32::MIN.
C25_NoNegationOfMin ==
    /\ alpha # I32_MIN
    /\ window[2] # I32_MIN
    /\ \A i \in LoadedJobs :
           /\ tasks[i].loaded # I32_MIN
           /\ tasks[i].value # I32_MIN
           /\ NegationsSafe(opposite(player),
                  SuccessorsInOrder(opposite(player), moves[i], heuristic_depth - 1),
                  1, heuristic_depth - 1,
                  i32_neg(window[2]), i32_neg(tasks[i].loaded), I32_MIN)
    /\ Returned => returned[2] # I32_MIN

\* choose_move has returned at depth 2 with the full window after a job
\* evaluated a successor on which the opponent has no move, where the search
\* one level down ends with i32::MIN as its best value.
C25_Witness ==
    /\ Returned
    /\ FullWindow
    /\ heuristic_depth = 2
    /\ \E i \in 1..Len(moves) :
           /\ Len(possible_moves(moves[i], opposite(player))) = 0
           /\ tasks[i].value = -sign(opposite(player)) * heuristic_evaluate(moves[i])
    /\ \E i \in 1..Len(moves) : Len(possible_moves(moves[i], opposite(player))) > 0

RECURSIVE WalkEnds(_, _, _, _, _)
\* The loop of generate_edge from the state (previous_coords, coords) comes
\* back to the start cell within fuel iterations.
WalkEnds(b, start_coords, previous_coords, c, fuel) ==
    IF fuel = 0 THEN FALSE
    ELSE \/ NextOnEdge(b, c, previous_coords, start_coords)[1] = start_coords
         \/ WalkEnds(b, start_coords, c,
                     NextOnEdge(b, c, previous_coords, start_coords)[1], fuel - 1)

\* The cell the walk starts from.
WalkStart(b) == index_to_coords(b, FirstBoardTileIndex(b) - 1)

\* C28: on every board with a board tile, connected or not, the outer-edge
\* walk comes back to its start cell and ends; the walk has as many states
\* as there are pairs of neighbouring cells, so a walk that has not ended
\* after 6 * cells + 1 iterations never ends.  From a board tile without a
\* neighbouring board tile it yields that cell at most.
C28_WalkEnds ==
    /\ WalkEnds(board, WalkStart(board),
                add_offset(WalkStart(board), <<0, -1>>), WalkStart(board),
                6 * Len(board.tiles) + 1)
    /\ (\A d \in Directions : ~IsBoardTileAt(board, Step(WalkStart(board), d, 1)))
           => iter_empty_outer_edge(board) \in {<<>>, <<WalkStart(board)>>}

\* Min has placed its stack on a board whose board tiles are not connected
\* and whose walk takes several iterations.
C28_Witness ==
    /\ turns = 1
    /\ ~Connected(board)
    /\ \E c \in Owned(board, Min) : SizeAt(board, c) = 16
    /\ ~WalkEnds(board, WalkStart(board),
                 add_offset(WalkStart(board), <<0, -1>>), WalkStart(board), 2)
    /\ WalkEnds(board, WalkStart(board),
                add_offset(WalkStart(board), <<0, -1>>), WalkStart(board),
                6 * Len(board.tiles) + 1)

(***************************************************************************)
(* C29, C30: whole games.                                                  *)
(***************************************************************************)
Empties(b) == Cardinality({c \in Cells(b) : IsEmptyAt(b, c)})

\* C29: every move takes one Empty cell and adds one stack, so the turns
\* played and the Empty cells left add up to the Empty cells of the first
\* board and the bound of the model on the turns is never met; and play
\* reaches a position where the player to move has no successor, choose_move
\* returns None and the loop ends.
C29_GamesEnd ==
    /\ [][board' # board =>
            /\ Empties(board') = Empties(board) - 1
            /\ Cardinality(Stacks(board')) = Cardinality(Stacks(board)) + 1
            /\ turns' = turns + 1]_vars
    /\ [](turns + Empties(board) <= MaxGameCells /\ turns < MaxGameTurns)
    /\ <>(announced.result # "None" /\ Len(possible_moves(board, player)) = 0)

\* A game has ended after as many moves as its first board had Empty cells.
C29_Witness ==
    /\ announced.result # "None"
    /\ turns = MaxGameCells
    /\ Empties(board) = 0

\* C30: in every position of a game that started without stacks, a player
\* owns 0 or 16 sheep, every stack has 1 to 16 sheep, and the even-split
\* term of a player is 7 at most.
C30_SixteenSheep ==
    /\ \A p \in Players : Sheep(board, p) \in {0, 16}
    /\ \A c \in Stacks(board) : SizeAt(board, c) \in 1..16
    /\ \A p \in Players : Owned(board, p) # {} => UnevenTerm(board, p) <= 7

\* Both players have placed their sheep and one has split 15 off: its
\* even-split term is 7.
C30_Witness ==
    /\ \A p \in Players : Sheep(board, p) = 16
    /\ \E p \in Players : SetMax({SizeAt(board, c) : c \in Owned(board, p)}) = 15
                           /\ UnevenTerm(board, p) = 7

====
